---- MODULE Spec2Model ----
(***************************************************************************)
(* A model of the recruiter-ai backend's two algorithmic services:         *)
(*   - services/job_scoring_service.py : JobScoringService                 *)
(*   - services/resume_parser.py       : ResumeParser                      *)
(*                                                                         *)
(* Python values are represented as follows.                               *)
(*   - A str whose characters matter (it is searched, split, lower-cased)  *)
(*     is a sequence of one-character strings: "BS" is <<"B","S">>.        *)
(*     The bullet character is the token "BULLET".                         *)
(*   - A str that is only ever used as a dictionary key or compared whole  *)
(*     (skill names, experience levels, weight names) is a TLA+ string.    *)
(*   - A dict is a function whose DOMAIN is its key set; d.get(k, v) is    *)
(*     Get(d, k, v); an empty dict has an empty DOMAIN.                    *)
(*   - A float is an exact rational <<numerator, denominator>> in lowest   *)
(*     terms with a positive denominator; binary representation error of   *)
(*     IEEE doubles is not modelled.                                       *)
(*   - A raised exception is a result record with err # "none".            *)
(***************************************************************************)
EXTENDS Integers, Sequences, FiniteSets, TLC

(***************************************************************************)
(* Characters and Python str methods                                       *)
(***************************************************************************)
UpperChars ==
    <<"A","B","C","D","E","F","G","H","I","J","K","L","M",
      "N","O","P","Q","R","S","T","U","V","W","X","Y","Z">>

LowerChars ==
    <<"a","b","c","d","e","f","g","h","i","j","k","l","m",
      "n","o","p","q","r","s","t","u","v","w","x","y","z">>

DigitChars == {"0","1","2","3","4","5","6","7","8","9"}

SpaceChars == {" ", "\t", "\n"}

Range(s) == {s[i] : i \in DOMAIN s}

UpperSet == Range(UpperChars)

LowerSet == Range(LowerChars)

IsUpper(c) == c \in UpperSet

IsLower(c) == c \in LowerSet

IsAlpha(c) == IsUpper(c) \/ IsLower(c)

IsDigit(c) == c \in DigitChars

IsSpace(c) == c \in SpaceChars

\* \w of Python's re for the characters the model uses
IsWord(c) == IsAlpha(c) \/ IsDigit(c) \/ c = "_"

LowerChar(c) ==
    IF IsUpper(c) THEN LowerChars[CHOOSE i \in DOMAIN UpperChars : UpperChars[i] = c] ELSE c

UpperChar(c) ==
    IF IsLower(c) THEN UpperChars[CHOOSE i \in DOMAIN LowerChars : LowerChars[i] = c] ELSE c

\* str.lower()
lower(s) == SubSeq([i \in DOMAIN s |-> LowerChar(s[i])], 1, Len(s))

\* str.title(): a letter that follows a letter is lower-cased, any other is upper-cased
title(s) ==
    SubSeq([i \in DOMAIN s |->
               IF i > 1 /\ IsAlpha(s[i - 1]) THEN LowerChar(s[i]) ELSE UpperChar(s[i])],
           1, Len(s))

\* sub in s (Python substring test); the empty string is in every string
Contains(s, sub) ==
    \E i \in 0..(Len(s) - Len(sub)) : \A k \in DOMAIN sub : s[i + k] = sub[k]

\* any(x in s for x in keywords)
AnyIn(keywords, s) == \E k \in DOMAIN keywords : Contains(s, keywords[k])

(***************************************************************************)
(* Python dict                                                             *)
(***************************************************************************)
EmptyDict == [k \in {} |-> 0]

\* d.get(k, default)
Get(d, k, default) == IF k \in DOMAIN d THEN d[k] ELSE default

\* bool(d) for a dict or a list
Truthy(d) == DOMAIN d # {}

(***************************************************************************)
(* float arithmetic as exact rationals                                     *)
(***************************************************************************)
Abs(n) == IF n < 0 THEN -n ELSE n

RECURSIVE GCD(_, _)
GCD(a, b) == IF b = 0 THEN a ELSE GCD(b, a % b)

Norm(n, d) ==
    LET g == GCD(Abs(n), d)
    IN  IF n = 0 THEN <<0, 1>> ELSE <<n \div g, d \div g>>

Rat(n) == <<n, 1>>

RAdd(a, b) == Norm(a[1] * b[2] + b[1] * a[2], a[2] * b[2])

RMul(a, b) == Norm(a[1] * b[1], a[2] * b[2])

\* a / b for b # 0
RDiv(a, b) ==
    IF b[1] > 0 THEN Norm(a[1] * b[2], a[2] * b[1])
                ELSE Norm(-(a[1] * b[2]), a[2] * (-b[1]))

RGeq(a, b) == a[1] * b[2] >= b[1] * a[2]

RMax(a, b) == IF RGeq(a, b) THEN a ELSE b

RMin(a, b) == IF RGeq(a, b) THEN b ELSE a

\* floor(n / d) for d > 0, also for negative n
FloorDiv(n, d) == IF n >= 0 THEN n \div d ELSE -((-n + d - 1) \div d)

\* round(x, 2): the nearest multiple of 1/100, ties to the even multiple
round2(x) ==
    LET n100 == 100 * x[1]
        q    == FloorDiv(n100, x[2])
        twice == 2 * (n100 - q * x[2])
        h    == IF twice > x[2] THEN q + 1
                ELSE IF twice < x[2] THEN q
                ELSE IF q % 2 = 0 THEN q ELSE q + 1
    IN  Norm(h, 100)

(***************************************************************************)
(* String constants of job_scoring_service.py                              *)
(***************************************************************************)
\* _normalize_degree, line 152
BachelorKeywords ==
    << <<"b","a","c","h","e","l","o","r">>,
       <<"b",".","s",".">>,
       <<"b","s">>,
       <<"b","a">> >>

\* _normalize_degree, line 154
MasterKeywords ==
    << <<"m","a","s","t","e","r">>,
       <<"m",".","s",".">>,
       <<"m","s">>,
       <<"m","a">>,
       <<"m","b","a">> >>

\* _normalize_degree, line 156
PhDKeywords ==
    << <<"p","h","d">>,
       <<"d","o","c","t","o","r">>,
       <<"p","h",".","d",".">>,
       <<"m","d">>,
       <<"j","d">> >>

s_associate == <<"a","s","s","o","c","i","a","t","e">>

s_high_school == <<"h","i","g","h"," ","s","c","h","o","o","l">>

s_Bachelor == <<"B","a","c","h","e","l","o","r">>

s_Master == <<"M","a","s","t","e","r">>

s_PhD == <<"P","h","D">>

s_Associate == <<"A","s","s","o","c","i","a","t","e">>

s_High_School == <<"H","i","g","h"," ","S","c","h","o","o","l">>

(***************************************************************************)
(* JobScoringService                                                       *)
(***************************************************************************)
\* the value a scorer returns, or the exception it raises
Ok(v) == [err |-> "none", val |-> v]

Raise(e) == [err |-> e, val |-> Rat(0)]

\* self.default_weights
default_weights ==
    [technicalSkills |-> <<2, 5>>, experience |-> <<3, 10>>,
     education |-> <<1, 5>>, culturalFit |-> <<1, 10>>]

\* the category list the technical scorer walks
SkillCategories == <<"programmingLanguages", "frameworks", "cloudAndDevOps", "tools">>

\* a variant of RequiredItems that walks every category of the job's map
RequiredItemsOfAllCategories(required_skills) ==
    UNION { {<<c, s>> : s \in DOMAIN required_skills[c]} : c \in DOMAIN required_skills }

\* the (category, skill) pairs the two nested loops visit
RequiredItems(required_skills) ==
    UNION { {<<c, s>> : s \in DOMAIN required_skills[c]} :
            c \in Range(SkillCategories) \cap DOMAIN required_skills }

\* candidate.get(skill, 0) for the candidate dict of the item's category
CandidateLevel(candidate_skills, item) ==
    Get(Get(candidate_skills, item[1], EmptyDict), item[2], 0)

\* a variant of Credit without the full-credit branch: the ratio is never capped
CreditUncapped(candidate_level, min_level) ==
    IF min_level = 0
    THEN Raise("ZeroDivisionError")
    ELSE Ok(RMax(Rat(0), RDiv(Rat(candidate_level), Rat(min_level))))

\* what one required skill adds to total_score (lines 111-115)
Credit(candidate_level, min_level) ==
    IF candidate_level >= min_level
    THEN Ok(Rat(1))
    ELSE IF min_level = 0
         THEN Raise("ZeroDivisionError")
         ELSE Ok(RMax(Rat(0), RDiv(Rat(candidate_level), Rat(min_level))))

\* the credit of one visited (category, skill) pair
ItemCredit(candidate_skills, required_skills, item) ==
    Credit(CandidateLevel(candidate_skills, item), required_skills[item[1]][item[2]])

\* total_score after the loops over items
RECURSIVE SumCredits(_, _, _)
SumCredits(items, candidate_skills, required_skills) ==
    IF items = {} THEN Ok(Rat(0))
    ELSE LET it == CHOOSE x \in items : TRUE
             c == ItemCredit(candidate_skills, required_skills, it)
             rest == SumCredits(items \ {it}, candidate_skills, required_skills)
         IN  IF c.err # "none" THEN c
             ELSE IF rest.err # "none" THEN rest
             ELSE Ok(RAdd(c.val, rest.val))

\* a variant of the technical scorer without its two guards against a job
\* that requires no skill: the average divides by the number of required skills
TechnicalScoreUnguarded(candidate_skills, required_skills) ==
    LET items == IF Truthy(required_skills) THEN RequiredItems(required_skills) ELSE {}
        total_required == Cardinality(items)
        total_score == SumCredits(items, candidate_skills, required_skills)
    IN  IF total_score.err # "none" THEN total_score
        ELSE IF total_required = 0 THEN Raise("ZeroDivisionError")
        ELSE Ok(RMul(RDiv(total_score.val, Rat(total_required)), Rat(100)))

_calculate_technical_score(candidate_skills, required_skills) ==
    IF ~Truthy(required_skills) THEN Ok(Rat(0))
    ELSE LET items == RequiredItems(required_skills)
             total_required == Cardinality(items)
             total_score == SumCredits(items, candidate_skills, required_skills)
         IN  IF total_score.err # "none" THEN total_score
             ELSE IF total_required > 0
                  THEN Ok(RMul(RDiv(total_score.val, Rat(total_required)), Rat(100)))
                  ELSE Ok(Rat(0))

level_values ==
    ("Junior" :> 1) @@ ("Mid-level" :> 2) @@ ("Senior" :> 3) @@ ("Lead" :> 4)

\* a variant of the experience scorer whose partial credit divides with //
ExperienceScoreFloorDiv(candidate_level, required_experience) ==
    IF ~Truthy(required_experience) THEN Ok(Rat(0))
    ELSE LET required_level == Get(required_experience, "level", "Mid-level")
             candidate_value == Get(level_values, candidate_level, 0)
             required_value == Get(level_values, required_level, 0)
         IN  IF candidate_value >= required_value
             THEN Ok(Rat(100))
             ELSE IF required_value = 0
                  THEN Raise("ZeroDivisionError")
                  ELSE Ok(Rat(FloorDiv(candidate_value, required_value) * 100))

\* a variant of the experience scorer without the early return of lines 123-124
ExperienceScoreUnguarded(candidate_level, required_experience) ==
    LET required_level == Get(required_experience, "level", "Mid-level")
        candidate_value == Get(level_values, candidate_level, 0)
        required_value == Get(level_values, required_level, 0)
    IN  IF candidate_value >= required_value
        THEN Ok(Rat(100))
        ELSE IF required_value = 0
             THEN Raise("ZeroDivisionError")
             ELSE Ok(RMul(RDiv(Rat(candidate_value), Rat(required_value)), Rat(100)))

_calculate_experience_score(candidate_level, required_experience) ==
    IF ~Truthy(required_experience) THEN Ok(Rat(0))
    ELSE LET required_level == Get(required_experience, "level", "Mid-level")
             candidate_value == Get(level_values, candidate_level, 0)
             required_value == Get(level_values, required_level, 0)
         IN  IF candidate_value >= required_value
             THEN Ok(Rat(100))
             ELSE IF required_value = 0
                  THEN Raise("ZeroDivisionError")
                  ELSE Ok(RMul(RDiv(Rat(candidate_value), Rat(required_value)), Rat(100)))

\* a variant of _normalize_degree that tests the Master keywords first
NormalizeDegreeMasterFirst(degree) ==
    LET d == lower(degree)
    IN  IF AnyIn(MasterKeywords, d) THEN s_Master
        ELSE IF AnyIn(BachelorKeywords, d) THEN s_Bachelor
        ELSE IF AnyIn(PhDKeywords, d) THEN s_PhD
        ELSE IF Contains(d, s_associate) THEN s_Associate
        ELSE IF Contains(d, s_high_school) THEN s_High_School
        ELSE title(d)

_normalize_degree(degree) ==
    LET d == lower(degree)
    IN  IF AnyIn(BachelorKeywords, d) THEN s_Bachelor
        ELSE IF AnyIn(MasterKeywords, d) THEN s_Master
        ELSE IF AnyIn(PhDKeywords, d) THEN s_PhD
        ELSE IF Contains(d, s_associate) THEN s_Associate
        ELSE IF Contains(d, s_high_school) THEN s_High_School
        ELSE title(d)

\* a variant of degree_values with the values of Bachelor and Master exchanged
degree_values_exchanged ==
    (s_High_School :> 1) @@ (s_Associate :> 2) @@ (s_Bachelor :> 4) @@
    (s_Master :> 3) @@ (s_PhD :> 5)

degree_values ==
    (s_High_School :> 1) @@ (s_Associate :> 2) @@ (s_Bachelor :> 3) @@
    (s_Master :> 4) @@ (s_PhD :> 5)

\* the loop of lines 181-185 from entry k on, highest being the value so far
RECURSIVE HighestDegree(_, _, _)
HighestDegree(candidate_education, k, highest) ==
    IF k > Len(candidate_education) THEN highest
    ELSE LET degree == _normalize_degree(Get(candidate_education[k], "degree", <<>>))
         IN  HighestDegree(candidate_education, k + 1,
                 IF /\ degree \in DOMAIN degree_values
                    /\ degree_values[degree] > Get(degree_values, highest, 0)
                 THEN degree ELSE highest)

\* a variant of FieldBonus that compares without lower()
FieldBonusCaseSensitive(candidate_education, preferred_fields) ==
    IF /\ Truthy(preferred_fields)
       /\ \E k \in DOMAIN candidate_education :
             \E p \in DOMAIN preferred_fields :
                Contains(Get(candidate_education[k], "degree", <<>>), preferred_fields[p])
    THEN 20 ELSE 0

\* lines 194-200
FieldBonus(candidate_education, preferred_fields) ==
    IF /\ Truthy(preferred_fields)
       /\ \E k \in DOMAIN candidate_education :
             \E p \in DOMAIN preferred_fields :
                Contains(lower(Get(candidate_education[k], "degree", <<>>)),
                         lower(preferred_fields[p]))
    THEN 20 ELSE 0

\* lines 187-192
BaseScore(candidate_value, required_value) ==
    IF candidate_value >= required_value
    THEN Rat(100)
    ELSE IF required_value # 0
         THEN RMul(RDiv(Rat(candidate_value), Rat(required_value)), Rat(100))
         ELSE Rat(0)

\* a variant of the education scorer without min(100, ...)
EducationScoreUncapped(candidate_education, required_education) ==
    IF ~Truthy(required_education) \/ ~Truthy(candidate_education) THEN Ok(Rat(0))
    ELSE LET required_degree == Get(required_education, "minimumDegree", s_Bachelor)
             preferred_fields == Get(required_education, "preferredFields", <<>>)
             highest_degree == HighestDegree(candidate_education, 1, s_High_School)
             candidate_value == Get(degree_values, highest_degree, 0)
             required_value == Get(degree_values, required_degree, 0)
         IN  Ok(RAdd(BaseScore(candidate_value, required_value),
                     Rat(FieldBonus(candidate_education, preferred_fields))))

_calculate_education_score(candidate_education, required_education) ==
    IF ~Truthy(required_education) \/ ~Truthy(candidate_education) THEN Ok(Rat(0))
    ELSE LET required_degree == Get(required_education, "minimumDegree", s_Bachelor)
             preferred_fields == Get(required_education, "preferredFields", <<>>)
             highest_degree == HighestDegree(candidate_education, 1, s_High_School)
             candidate_value == Get(degree_values, highest_degree, 0)
             required_value == Get(degree_values, required_degree, 0)
             base_score == BaseScore(candidate_value, required_value)
             field_bonus == FieldBonus(candidate_education, preferred_fields)
         IN  Ok(RMin(Rat(100), RAdd(base_score, Rat(field_bonus))))

\* a variant of CulturalCredit that computes the ratio before comparing
CulturalCreditRatioFirst(candidate_cultural_fit, required_level) ==
    IF required_level = 0
    THEN Raise("ZeroDivisionError")
    ELSE Ok(RMin(Rat(1), RMax(Rat(0), RDiv(Rat(candidate_cultural_fit), Rat(required_level)))))

\* a variant of CulturalCredit without partial credit
CulturalCreditAllOrNothing(candidate_cultural_fit, required_level) ==
    IF candidate_cultural_fit >= required_level THEN Ok(Rat(1)) ELSE Ok(Rat(0))

\* what one required attribute adds to total_score (lines 217-220)
CulturalCredit(candidate_cultural_fit, required_level) ==
    IF candidate_cultural_fit >= required_level
    THEN Ok(Rat(1))
    ELSE IF required_level = 0
         THEN Raise("ZeroDivisionError")
         ELSE Ok(RMax(Rat(0), RDiv(Rat(candidate_cultural_fit), Rat(required_level))))

\* total_score after the loop over attrs
RECURSIVE SumCulturalCredits(_, _, _)
SumCulturalCredits(attrs, candidate_cultural_fit, cultural_requirements) ==
    IF attrs = {} THEN Ok(Rat(0))
    ELSE LET a == CHOOSE x \in attrs : TRUE
             c == CulturalCredit(candidate_cultural_fit, cultural_requirements[a])
             rest == SumCulturalCredits(attrs \ {a}, candidate_cultural_fit,
                                        cultural_requirements)
         IN  IF c.err # "none" THEN c
             ELSE IF rest.err # "none" THEN rest
             ELSE Ok(RAdd(c.val, rest.val))

_calculate_cultural_score(candidate_cultural_fit, cultural_requirements) ==
    IF ~Truthy(cultural_requirements) THEN Ok(Rat(candidate_cultural_fit))
    ELSE LET total_required == Cardinality(DOMAIN cultural_requirements)
             total_score == SumCulturalCredits(DOMAIN cultural_requirements,
                                               candidate_cultural_fit, cultural_requirements)
         IN  IF total_score.err # "none" THEN total_score
             ELSE IF total_required > 0
                  THEN Ok(RMul(RDiv(total_score.val, Rat(total_required)), Rat(100)))
                  ELSE Ok(Rat(candidate_cultural_fit))

\* one entry of scoring_breakdown["components"]
Component(score, weight) ==
    [score |-> round2(score), weight |-> weight, weighted_score |-> round2(RMul(score, weight))]

\* a variant of OverallScore that leaves the cultural term out of the sum
OverallScoreWithoutCultural(technical_score, experience_score, education_score, cultural_score, weights) ==
    RAdd(RAdd(RMul(technical_score, weights["technicalSkills"]),
              RMul(experience_score, weights["experience"])),
         RMul(education_score, weights["education"]))

\* lines 46-51
OverallScore(technical_score, experience_score, education_score, cultural_score, weights) ==
    RAdd(RAdd(RAdd(RMul(technical_score, weights["technicalSkills"]),
                   RMul(experience_score, weights["experience"])),
              RMul(education_score, weights["education"])),
         RMul(cultural_score, weights["culturalFit"]))

WeightKeys == {"technicalSkills", "experience", "education", "culturalFit"}

\* a variant of Weights that fills the keys the job's map lacks from the defaults
WeightsOverDefaults(job_requirement) ==
    Get(Get(job_requirement, "spec", EmptyDict), "scoringWeights", EmptyDict) @@ default_weights

\* a variant of Weights that never reads the job's scoringWeights
WeightsAlwaysDefault(job_requirement) == default_weights

\* the weights the scoring call works with (line 22)
Weights(job_requirement) ==
    Get(Get(job_requirement, "spec", EmptyDict), "scoringWeights", default_weights)

\* the four component scorer calls of lines 25-43, in call order
ComponentResults(candidate_data, job_requirement) ==
    LET spec == Get(job_requirement, "spec", EmptyDict)
        analysis == Get(candidate_data, "analysis", EmptyDict)
    IN  << _calculate_technical_score(Get(analysis, "technical_skills", EmptyDict),
                                      Get(spec, "requiredSkills", EmptyDict)),
           _calculate_experience_score(Get(analysis, "experience_level", "Unknown"),
                                       Get(spec, "requiredExperience", EmptyDict)),
           _calculate_education_score(
               Get(Get(candidate_data, "structured_data", EmptyDict), "education", <<>>),
               Get(spec, "requiredEducation", EmptyDict)),
           _calculate_cultural_score(Get(analysis, "cultural_fit", 0),
                                     Get(spec, "culturalRequirements", EmptyDict)) >>

\* the value returned at line 85, or the exception re-raised at line 89;
\* now is the reading of datetime.utcnow()
calculate_role_specific_score(candidate_data, job_requirement, now) ==
    LET spec == Get(job_requirement, "spec", EmptyDict)
        weights == Weights(job_requirement)
        r == ComponentResults(candidate_data, job_requirement)
        failed == {k \in 1..4 : r[k].err # "none"}
    IN  IF failed # {}
        THEN [err |-> r[CHOOSE k \in failed : \A j \in failed : k <= j].err,
              val |-> EmptyDict]
        ELSE IF ~(WeightKeys \subseteq DOMAIN weights)
        THEN [err |-> "KeyError", val |-> EmptyDict]
        ELSE [err |-> "none",
              val |->
                [overall_score |->
                    round2(OverallScore(r[1].val, r[2].val, r[3].val, r[4].val, weights)),
                 components |->
                    [technical_skills |-> Component(r[1].val, weights["technicalSkills"]),
                     experience |-> Component(r[2].val, weights["experience"]),
                     education |-> Component(r[3].val, weights["education"]),
                     cultural_fit |-> Component(r[4].val, weights["culturalFit"])],
                 job_requirement |->
                    [title |-> Get(spec, "title", "Unknown"),
                     department |-> Get(spec, "department", "Unknown")],
                 timestamp |-> now]]

(***************************************************************************)
(* Search helpers for the regular expressions of resume_parser.py          *)
(***************************************************************************)
MinOf(S) == CHOOSE x \in S : \A y \in S : x <= y

MaxOf(S) == CHOOSE x \in S : \A y \in S : x >= y

\* w occurs in s at position i
MatchAt(s, i, w) ==
    i >= 1 /\ i + Len(w) - 1 <= Len(s) /\ \A k \in DOMAIN w : s[i + k - 1] = w[k]

\* s.startswith(p)
StartsWith(s, p) == MatchAt(s, 1, p)

\* the n characters of s from position j on are digits
DigitsAt(s, j, n) == j >= 1 /\ j + n - 1 <= Len(s) /\ \A k \in j..(j + n - 1) : IsDigit(s[k])

\* the character of s at position j exists and is in set
CharIn(s, j, set) == j >= 1 /\ j <= Len(s) /\ s[j] \in set

\* \b holds between positions i - 1 and i of s
IsWordAt(s, j) == j >= 1 /\ j <= Len(s) /\ IsWord(s[j])

Boundary(s, i) == IsWordAt(s, i - 1) # IsWordAt(s, i)

\* re.search(r'\b(w1|w2|...)\b', s) finds a match
WordSearch(words, s) ==
    \E k \in DOMAIN words : \E i \in DOMAIN s :
        MatchAt(s, i, words[k]) /\ Boundary(s, i) /\ Boundary(s, i + Len(words[k]))

\* re.split on a character class
RECURSIVE SplitOn(_, _)
SplitOn(s, seps) ==
    IF \A i \in DOMAIN s : s[i] \notin seps THEN <<s>>
    ELSE LET i == MinOf({j \in DOMAIN s : s[j] \in seps})
         IN  <<SubSeq(s, 1, i - 1)>> \o SplitOn(SubSeq(s, i + 1, Len(s)), seps)

\* str.strip()
strip(s) ==
    LET solid == {i \in DOMAIN s : ~IsSpace(s[i])}
    IN  IF solid = {} THEN <<>> ELSE SubSeq(s, MinOf(solid), MaxOf(solid))

NonEmpty(s) == s # <<>>

(***************************************************************************)
(* String constants of resume_parser.py                                    *)
(***************************************************************************)
\* line 58
name_headers ==
    << <<"n","a","m","e",":">>,
       <<"f","u","l","l"," ","n","a","m","e",":">>,
       <<"c","a","n","d","i","d","a","t","e",":">>,
       <<"a","p","p","l","i","c","a","n","t",":">> >>

\* line 88
ResumeTitles ==
    << <<"r","e","s","u","m","e">>,
       <<"c","u","r","r","i","c","u","l","u","m"," ","v","i","t","a","e">>,
       <<"c","v">> >>

\* line 112
EducationStartWords ==
    << <<"e","d","u","c","a","t","i","o","n">>,
       <<"u","n","i","v","e","r","s","i","t","y">>,
       <<"c","o","l","l","e","g","e">>,
       <<"d","e","g","r","e","e">>,
       <<"b","a","c","h","e","l","o","r">>,
       <<"m","a","s","t","e","r">>,
       <<"p","h","d">> >>

\* line 117
EducationEndWords ==
    << <<"e","x","p","e","r","i","e","n","c","e">>,
       <<"w","o","r","k">>,
       <<"e","m","p","l","o","y","m","e","n","t">>,
       <<"s","k","i","l","l","s">>,
       <<"p","r","o","j","e","c","t","s">> >>

\* line 124, lower-cased: the alternatives in order, matched ignoring case
DegreeWords ==
    << <<"b","a","c","h","e","l","o","r">>,
       <<"b",".","s",".">>,
       <<"b","s">>,
       <<"m","a","s","t","e","r">>,
       <<"m",".","s",".">>,
       <<"m","s">>,
       <<"p","h","d">>,
       <<"d","o","c","t","o","r">>,
       <<"a","s","s","o","c","i","a","t","e">>,
       <<"b","a","c","h","e","l","o","r","s">>,
       <<"m","a","s","t","e","r","s">>,
       <<"b","a">>,
       <<"m","a">>,
       <<"m","b","a">>,
       <<"j","d">>,
       <<"m","d">> >>

\* line 128, lower-cased: matched ignoring case
SchoolWords ==
    << <<"u","n","i","v","e","r","s","i","t","y">>,
       <<"c","o","l","l","e","g","e">>,
       <<"i","n","s","t","i","t","u","t","e">>,
       <<"s","c","h","o","o","l">>,
       <<"a","c","a","d","e","m","y">>,
       <<"p","o","l","y","t","e","c","h","n","i","c">>,
       <<"s","t","a","t","e"," ","u","n","i","v","e","r","s","i","t","y">>,
       <<"t","e","c","h">> >>

\* line 132
CenturyPrefixes ==
    << <<"1","9">>,
       <<"2","0">> >>

\* line 151
ContactWords ==
    << <<"M","o","b","i","l","e">>,
       <<"P","h","o","n","e">>,
       <<"T","e","l">>,
       <<"T","e","l","e","p","h","o","n","e">> >>

\* line 154
ExperienceStartWords ==
    << <<"e","x","p","e","r","i","e","n","c","e">>,
       <<"w","o","r","k">>,
       <<"e","m","p","l","o","y","m","e","n","t">> >>

\* line 159
ExperienceEndWords ==
    << <<"e","d","u","c","a","t","i","o","n">>,
       <<"s","k","i","l","l","s">>,
       <<"p","r","o","j","e","c","t","s">> >>

\* line 174
CompanyStopWords ==
    << <<"e","x","p","e","r","i","e","n","c","e">>,
       <<"e","d","u","c","a","t","i","o","n">>,
       <<"s","k","i","l","l","s">>,
       <<"p","r","o","j","e","c","t","s">> >>

\* line 194
SkillsStartWords ==
    << <<"s","k","i","l","l","s">>,
       <<"t","e","c","h","n","o","l","o","g","i","e","s">>,
       <<"t","o","o","l","s">>,
       <<"l","a","n","g","u","a","g","e","s">>,
       <<"p","r","o","g","r","a","m","m","i","n","g">> >>

\* line 199
SkillsEndWords ==
    << <<"e","x","p","e","r","i","e","n","c","e">>,
       <<"e","d","u","c","a","t","i","o","n">>,
       <<"p","r","o","j","e","c","t","s">> >>

\* line 209
LanguageWords ==
    << <<"j","a","v","a">>,
       <<"p","y","t","h","o","n">>,
       <<"j","a","v","a","s","c","r","i","p","t">>,
       <<"t","y","p","e","s","c","r","i","p","t">>,
       <<"r","u","b","y">>,
       <<"p","h","p">>,
       <<"c","+","+">>,
       <<"c","#">>,
       <<"s","w","i","f","t">>,
       <<"k","o","t","l","i","n">>,
       <<"g","o">>,
       <<"r","u","s","t">>,
       <<"s","c","a","l","a">>,
       <<"p","e","r","l">>,
       <<"r">>,
       <<"m","a","t","l","a","b">>,
       <<"s","q","l">>,
       <<"h","t","m","l">>,
       <<"c","s","s">> >>

\* line 212
TechnicalWords ==
    << <<"a","w","s">>,
       <<"a","z","u","r","e">>,
       <<"g","c","p">>,
       <<"d","o","c","k","e","r">>,
       <<"k","u","b","e","r","n","e","t","e","s">>,
       <<"r","e","a","c","t">>,
       <<"a","n","g","u","l","a","r">>,
       <<"v","u","e">>,
       <<"n","o","d","e">>,
       <<"e","x","p","r","e","s","s">>,
       <<"d","j","a","n","g","o">>,
       <<"f","l","a","s","k">>,
       <<"s","p","r","i","n","g">>,
       <<"g","i","t">>,
       <<"j","e","n","k","i","n","s">>,
       <<"a","g","i","l","e">>,
       <<"s","c","r","u","m">>,
       <<"l","i","n","u","x">>,
       <<"u","n","i","x">>,
       <<"w","i","n","d","o","w","s">>,
       <<"m","a","c","o","s">> >>

(***************************************************************************)
(* ResumeParser.extract_structured_data                                    *)
(***************************************************************************)
\* line 52
SplitLines(resume_content) ==
    LET raw == SplitOn(resume_content, {"\n"})
    IN  SelectSeq([i \in DOMAIN raw |-> strip(raw[i])], NonEmpty)

\* lines 63-70 for one line: the name after the first header that leaves one, or <<>>
HeaderName(line) ==
    LET rest(h) == strip(SubSeq(line, Len(name_headers[h]) + 1, Len(line)))
        hits == {h \in DOMAIN name_headers :
                    StartsWith(lower(line), name_headers[h]) /\ rest(h) # <<>>}
    IN  IF hits = {} THEN <<>> ELSE rest(MinOf(hits))

\* re.match(name_pattern, line), line 77
NamePattern(line) ==
    /\ Len(line) >= 1
    /\ \A i \in DOMAIN line : IsAlpha(line[i]) \/ IsSpace(line[i])
    /\ IsAlpha(line[1]) /\ IsAlpha(line[Len(line)])
    /\ \E i \in DOMAIN line : IsSpace(line[i])
    /\ \A i \in DOMAIN line :
          IsAlpha(line[i]) =>
             IF i > 1 /\ IsAlpha(line[i - 1])
             THEN IsLower(line[i])
             ELSE IsUpper(line[i]) /\ CharIn(line, i + 1, LowerSet)

\* a variant of NameFallback without the "and lines" guard of line 85
NameFallbackUnguarded(lines) ==
    IF Len(lines) = 0 THEN Raise("IndexError")
    ELSE IF \E k \in DOMAIN ResumeTitles : lower(lines[1]) = ResumeTitles[k]
         THEN Ok(<<>>)
         ELSE Ok(lines[1])

\* lines 85-89: the fallback name; lines[0] raises IndexError on an empty list
NameFallback(lines) ==
    IF Truthy(lines)
    THEN IF \E k \in DOMAIN ResumeTitles : lower(lines[1]) = ResumeTitles[k]
         THEN Ok(<<>>)
         ELSE Ok(lines[1])
    ELSE Ok(<<>>)

\* a variant of ExtractName that tries the name pattern before the headers
ExtractNamePatternFirst(lines) ==
    LET first10 == {i \in DOMAIN lines : i <= 10 /\ HeaderName(lines[i]) # <<>>}
        first5 == {i \in DOMAIN lines : i <= 5 /\ NamePattern(lines[i])}
    IN  IF first5 # {} THEN Ok(lines[MinOf(first5)])
        ELSE IF first10 # {} THEN Ok(HeaderName(lines[MinOf(first10)]))
        ELSE NameFallback(lines)

\* lines 55-89: the value structured_data["name"] ends with
ExtractName(lines) ==
    LET first10 == {i \in DOMAIN lines : i <= 10 /\ HeaderName(lines[i]) # <<>>}
        first5 == {i \in DOMAIN lines : i <= 5 /\ NamePattern(lines[i])}
    IN  IF first10 # {} THEN Ok(HeaderName(lines[MinOf(first10)]))
        ELSE IF first5 # {} THEN Ok(lines[MinOf(first5)])
        ELSE NameFallback(lines)

\* a character of the class [\w\.-]
IsEmailChar(c) == IsWord(c) \/ c = "." \/ c = "-"

\* the match of email_pattern whose "@" is at position a, or <<>>
EmailAt(s, a) ==
    LET start == MinOf({i \in 1..a : \A k \in i..(a - 1) : IsEmailChar(s[k])})
        e == MaxOf({j \in a..Len(s) : \A k \in (a + 1)..j : IsEmailChar(s[k])})
        dots == {p \in (a + 2)..(e - 1) : s[p] = "." /\ IsWord(s[p + 1])}
        p == MaxOf(dots)
        end == MaxOf({j \in p..Len(s) : \A k \in (p + 1)..j : IsWord(s[k])})
    IN  IF start < a /\ dots # {} THEN SubSeq(s, start, end) ELSE <<>>

\* re.search(email_pattern, line).group(0), or <<>> when there is no match
EmailMatch(line) ==
    LET ats == {a \in DOMAIN line : line[a] = "@" /\ EmailAt(line, a) # <<>>}
    IN  IF ats = {} THEN <<>> ELSE EmailAt(line, MinOf(ats))

PhoneSeparators == {"-", "."} \cup SpaceChars

\* the position after the match of phone_pattern that starts at i, or 0
PhoneEnd(s, i) ==
    LET j1 == IF CharIn(s, i, {"("}) THEN i + 1 ELSE i
        j2 == j1 + 3
        j3 == IF CharIn(s, j2, {")"}) THEN j2 + 1 ELSE j2
        j4 == IF CharIn(s, j3, PhoneSeparators) THEN j3 + 1 ELSE j3
        j5 == j4 + 3
        j6 == IF CharIn(s, j5, PhoneSeparators) THEN j5 + 1 ELSE j5
    IN  IF DigitsAt(s, j1, 3) /\ DigitsAt(s, j4, 3) /\ DigitsAt(s, j6, 4)
        THEN j6 + 4 ELSE 0

\* re.search(phone_pattern, line).group(0), or <<>> when there is no match
PhoneMatch(line) ==
    LET starts == {i \in DOMAIN line : PhoneEnd(line, i) # 0}
    IN  IF starts = {} THEN <<>>
        ELSE SubSeq(line, MinOf(starts), PhoneEnd(line, MinOf(starts)) - 1)

\* a variant of ContactLine that keeps the first match of each field
ContactLineKeepFirst(structured_data, line) ==
    LET d1 == IF EmailMatch(line) # <<>> /\ structured_data.email = <<>>
              THEN [structured_data EXCEPT !.email = EmailMatch(line)]
              ELSE structured_data
    IN  IF PhoneMatch(line) # <<>> /\ structured_data.phone = <<>>
        THEN [d1 EXCEPT !.phone = PhoneMatch(line)] ELSE d1

\* lines 96-104 for one line
ContactLine(structured_data, line) ==
    LET d1 == IF EmailMatch(line) # <<>>
              THEN [structured_data EXCEPT !.email = EmailMatch(line)]
              ELSE structured_data
    IN  IF PhoneMatch(line) # <<>> THEN [d1 EXCEPT !.phone = PhoneMatch(line)] ELSE d1

\* d[k] = v
Put(d, k, v) == (k :> v) @@ d

\* re.search of line 124 .group(0): at the leftmost position where an alternative
\* matches, the first alternative in order; <<>> when there is no match
DegreeMatch(line) ==
    LET l == lower(line)
        at(i) == {k \in DOMAIN DegreeWords : MatchAt(l, i, DegreeWords[k])}
        pos == {i \in DOMAIN l : at(i) # {}}
    IN  IF pos = {} THEN <<>>
        ELSE SubSeq(line, MinOf(pos), MinOf(pos) + Len(DegreeWords[MinOf(at(MinOf(pos)))]) - 1)

\* re.search of line 128 finds a match
SchoolMatch(line) == AnyIn(SchoolWords, lower(line))

\* re.search(r'(19|20)\d{2}', line).group(0), or <<>>
YearMatch(line) ==
    LET pos == {i \in DOMAIN line :
                   /\ \E k \in DOMAIN CenturyPrefixes : MatchAt(line, i, CenturyPrefixes[k])
                   /\ DigitsAt(line, i + 2, 2)}
    IN  IF pos = {} THEN <<>> ELSE SubSeq(line, MinOf(pos), MinOf(pos) + 3)

\* lines 123-134: the fields one line adds to the partial entry
EducationFields(current_edu, line) ==
    LET e1 == IF DegreeMatch(line) # <<>>
              THEN Put(current_edu, "degree", DegreeMatch(line)) ELSE current_edu
        e2 == IF SchoolMatch(line) THEN Put(e1, "school", strip(line)) ELSE e1
    IN  IF YearMatch(line) # <<>> THEN Put(e2, "year", YearMatch(line)) ELSE e2

\* a variant of EducationLine without the completion test of lines 136-138
EducationLineNoCompletion(st, line) ==
    IF AnyIn(EducationStartWords, lower(line))
    THEN [st EXCEPT !.education_section = TRUE]
    ELSE IF st.education_section
    THEN IF AnyIn(EducationEndWords, lower(line))
         THEN [education_section |-> FALSE,
               education_entries |->
                   IF Truthy(st.current_edu)
                   THEN Append(st.education_entries, st.current_edu)
                   ELSE st.education_entries,
               current_edu |-> EmptyDict]
         ELSE [st EXCEPT !.current_edu = EducationFields(st.current_edu, line)]
    ELSE st

\* lines 111-138: one iteration of the education loop on
\* st = [education_section, education_entries, current_edu]
EducationLine(st, line) ==
    IF AnyIn(EducationStartWords, lower(line))
    THEN [st EXCEPT !.education_section = TRUE]
    ELSE IF st.education_section
    THEN IF AnyIn(EducationEndWords, lower(line))
         THEN [education_section |-> FALSE,
               education_entries |->
                   IF Truthy(st.current_edu)
                   THEN Append(st.education_entries, st.current_edu)
                   ELSE st.education_entries,
               current_edu |-> EmptyDict]
         ELSE LET e == EducationFields(st.current_edu, line)
              IN  IF "degree" \in DOMAIN e /\ "year" \in DOMAIN e
                  THEN [st EXCEPT !.education_entries = Append(@, e),
                                  !.current_edu = EmptyDict]
                  ELSE [st EXCEPT !.current_edu = e]
    ELSE st

\* lines 139-141: the entries after the loop
EducationFlush(st) ==
    IF Truthy(st.current_edu)
    THEN Append(st.education_entries, st.current_edu)
    ELSE st.education_entries

ContactNumberChars == {"+", "-", "(", ")"} \cup DigitChars \cup SpaceChars

\* re.search of line 151 finds a match
ContactLike(line) ==
    \E k \in DOMAIN ContactWords : \E i \in DOMAIN line :
        /\ MatchAt(line, i, ContactWords[k])
        /\ \E j \in (i + Len(ContactWords[k]))..Len(line) :
              /\ \A m \in (i + Len(ContactWords[k]))..(j - 1) :
                     line[m] = ":" \/ IsSpace(line[m])
              /\ line[j] \in ContactNumberChars

\* re.search(r'\d{4}', line).group(0), or <<>>
FourDigits(line) ==
    LET pos == {i \in DOMAIN line : DigitsAt(line, i, 4)}
    IN  IF pos = {} THEN <<>> ELSE SubSeq(line, MinOf(pos), MinOf(pos) + 3)

\* lines.index(line): the first position holding line; 0 stands for ValueError
IndexOf(lines, line) ==
    IF \E i \in DOMAIN lines : lines[i] = line
    THEN MinOf({i \in DOMAIN lines : lines[i] = line})
    ELSE 0

\* lines 172-176: company_line for the year line
CompanyLine(lines, line) ==
    LET from == IndexOf(lines, line)
        ok == {j \in DOMAIN lines :
                  /\ j > from
                  /\ FourDigits(lines[j]) = <<>>
                  /\ ~AnyIn(CompanyStopWords, lower(lines[j]))}
    IN  IF from = 0 THEN Raise("ValueError")
        ELSE IF ok = {} THEN Ok(<<>>) ELSE Ok(lines[MinOf(ok)])

\* lines 150-182: one iteration of the experience loop on
\* st = [err, experience_section, experience, current_experience]
ExperienceLine(st, lines, line) ==
    IF ContactLike(line) THEN st
    ELSE IF AnyIn(ExperienceStartWords, lower(line))
    THEN [st EXCEPT !.experience_section = TRUE]
    ELSE IF st.experience_section
    THEN IF AnyIn(ExperienceEndWords, lower(line))
         THEN [st EXCEPT !.experience_section = FALSE,
                         !.experience = IF Truthy(st.current_experience)
                                        THEN Append(@, st.current_experience) ELSE @,
                         !.current_experience = EmptyDict]
         ELSE IF FourDigits(line) # <<>>
         THEN LET flushed == IF Truthy(st.current_experience)
                             THEN Append(st.experience, st.current_experience)
                             ELSE st.experience
                  company_line == CompanyLine(lines, line)
              IN  IF company_line.err # "none"
                  THEN [st EXCEPT !.err = company_line.err, !.experience = flushed]
                  ELSE [st EXCEPT !.experience = flushed,
                                  !.current_experience =
                                      [title |-> line,
                                       company |-> strip(company_line.val),
                                       duration |-> FourDigits(line)]]
         ELSE st
    ELSE st

\* a variant of ExperienceFlush that drops the entry still open
ExperienceFlushDropsOpen(st) == st.experience

\* lines 184-186: the experience list after the loop
ExperienceFlush(st) ==
    IF Truthy(st.current_experience)
    THEN Append(st.experience, st.current_experience)
    ELSE st.experience

\* line 204
SkillTokens(line) ==
    LET parts == SplitOn(line, {",", "BULLET"})
    IN  SelectSeq([i \in DOMAIN parts |-> strip(parts[i])], NonEmpty)

\* a variant of Categorize that tests the technical dictionary first
RECURSIVE CategorizeTechnicalFirst(_, _, _)
CategorizeTechnicalFirst(st, tokens, k) ==
    IF k > Len(tokens) THEN st
    ELSE LET skill == tokens[k]
         IN  CategorizeTechnicalFirst(
                 IF WordSearch(TechnicalWords, lower(skill))
                 THEN [st EXCEPT !.technical_skills = Append(@, skill)]
                 ELSE IF WordSearch(LanguageWords, lower(skill))
                 THEN [st EXCEPT !.programming_languages = Append(@, skill)]
                 ELSE [st EXCEPT !.skills = Append(@, skill)],
                 tokens, k + 1)

\* lines 207-215 from token k on, st = [programming_languages, technical_skills, skills]
RECURSIVE Categorize(_, _, _)
Categorize(st, tokens, k) ==
    IF k > Len(tokens) THEN st
    ELSE LET skill == tokens[k]
         IN  Categorize(
                 IF WordSearch(LanguageWords, lower(skill))
                 THEN [st EXCEPT !.programming_languages = Append(@, skill)]
                 ELSE IF WordSearch(TechnicalWords, lower(skill))
                 THEN [st EXCEPT !.technical_skills = Append(@, skill)]
                 ELSE [st EXCEPT !.skills = Append(@, skill)],
                 tokens, k + 1)

\* lines 194-215: one iteration of the skills loop on
\* st = [skills_section, programming_languages, technical_skills, skills]
SkillsLine(st, line) ==
    IF AnyIn(SkillsStartWords, lower(line))
    THEN [st EXCEPT !.skills_section = TRUE]
    ELSE IF st.skills_section
    THEN IF AnyIn(SkillsEndWords, lower(line))
         THEN [st EXCEPT !.skills_section = FALSE]
         ELSE Categorize(st, SkillTokens(line), 1)
    ELSE st

(***************************************************************************)
(* Inputs of the scoring call                                              *)
(***************************************************************************)
\* the number of education entries a candidate may carry
MaxEducation == 2

\* the readings datetime.utcnow() may give are 1..MaxClock
MaxClock == 2

\* an optional dictionary entry: o is <<>> (key absent) or <<v>>
Opt(k, o) == IF Len(o) = 0 THEN EmptyDict ELSE (k :> o[1])

\* <<>> and the one-element sequences over S
Optional(S) == {<<>>} \cup {<<v>> : v \in S}

s_BS_Computer_Science ==
    <<"B","S"," ","C","o","m","p","u","t","e","r"," ","S","c","i","e","n","c","e">>

s_Computer_Science == <<"C","o","m","p","u","t","e","r"," ","S","c","i","e","n","c","e">>

s_Master_of_Science == <<"M","a","s","t","e","r"," ","o","f"," ","S","c","i","e","n","c","e">>

s_PhD_Physics == <<"P","h","D"," ","P","h","y","s","i","c","s">>

s_Certificate == <<"C","e","r","t","i","f","i","c","a","t","e">>

s_physics == <<"p","h","y","s","i","c","s">>

s_computer_science == <<"c","o","m","p","u","t","e","r"," ","s","c","i","e","n","c","e">>

s_Doctorate == <<"D","o","c","t","o","r","a","t","e">>

s_2015 == <<"2","0","1","5">>

\* analysis["technical_skills"] of a candidate
CandidateSkillChoices ==
    {EmptyDict, [programmingLanguages |-> ("Python" :> 9)]} \cup
    { [programmingLanguages |-> ("Python" :> l),
       frameworks |-> ("React" :> 5),
       databases |-> ("Postgres" :> 9)] : l \in {0, 4, 8, 9} }

\* spec["requiredSkills"] of a job, or <<>> when the job has no such key
RequiredSkillChoices ==
    Optional({ Opt("programmingLanguages", py) @@ Opt("frameworks", re) @@ Opt("databases", pg) :
               py \in Optional({("Python" :> m) : m \in {0, 8, 10}}),
               re \in Optional({("React" :> 7)}),
               pg \in Optional({("Postgres" :> 7)}) })

TechnicalChoices == CandidateSkillChoices \X RequiredSkillChoices

CandidateLevelChoices == Optional({"Junior", "Mid-level", "Senior", "Lead", "Intern"})

RequiredExperienceChoices ==
    Optional({EmptyDict, [years |-> 3]} \cup
             {[level |-> l] : l \in {"Junior", "Mid-level", "Senior", "Lead", "Principal"}})

ExperienceChoices == CandidateLevelChoices \X RequiredExperienceChoices

EducationEntries ==
    { [degree |-> s_BS_Computer_Science], [degree |-> s_Master_of_Science],
      [degree |-> s_PhD_Physics], [degree |-> s_Associate],
      [degree |-> s_Certificate], [year |-> s_2015] }

CandidateEducationChoices ==
    UNION { [1..n -> EducationEntries] : n \in 0..MaxEducation }

RequiredEducationChoices ==
    Optional({ Opt("minimumDegree", d) @@ Opt("preferredFields", f) :
               d \in Optional({s_Bachelor, s_Master, s_PhD, s_Doctorate}),
               f \in Optional({<<s_Computer_Science>>,
                                <<s_physics, s_computer_science>>}) })

EducationChoices == CandidateEducationChoices \X RequiredEducationChoices

CulturalFitChoices == Optional({0, 50, 85, 100})

CulturalRequirementChoices ==
    Optional({EmptyDict, [teamwork |-> 70], [teamwork |-> 70, ownership |-> 90],
              [teamwork |-> 0]})

CulturalChoices == CulturalFitChoices \X CulturalRequirementChoices

\* spec["scoringWeights"] of a job, or <<>> when the job has no such key
WeightChoices ==
    Optional({ [technicalSkills |-> <<1, 4>>, experience |-> <<1, 4>>,
                education |-> <<1, 4>>, culturalFit |-> <<1, 4>>],
               [technicalSkills |-> <<1, 2>>, experience |-> <<3, 10>>,
                education |-> <<1, 5>>, culturalFit |-> <<0, 1>>],
               [technicalSkills |-> <<1, 1>>, experience |-> <<1, 1>>,
                education |-> <<1, 1>>, culturalFit |-> <<1, 1>>],
               [technicalSkills |-> <<0, 1>>, experience |-> <<0, 1>>,
                education |-> <<0, 1>>, culturalFit |-> <<0, 1>>],
               [technical |-> <<1, 2>>, experience |-> <<1, 2>>] })

\* one pair of each kind, around which the other kinds vary
TechnicalBase ==
    { << [programmingLanguages |-> ("Python" :> 4), frameworks |-> ("React" :> 5),
          databases |-> ("Postgres" :> 9)],
         << [programmingLanguages |-> ("Python" :> 8), frameworks |-> ("React" :> 7)] >> >> }

ExperienceBase == { << <<"Mid-level">>, << [level |-> "Senior"] >> >> }

EducationBase ==
    { << <<[degree |-> s_BS_Computer_Science]>>,
         << [minimumDegree |-> s_Master, preferredFields |-> <<s_physics>>] >> >> }

CulturalBase == { << <<85>>, << [teamwork |-> 70, ownership |-> 90] >> >> }

\* the weights the education inputs are scored under: the defaults and the quarters
EducationWeightChoices ==
    {<<>>, << [technicalSkills |-> <<1, 4>>, experience |-> <<1, 4>>,
               education |-> <<1, 4>>, culturalFit |-> <<1, 4>>] >>}

\* the inputs of a scoring call: <<technical, experience, education, cultural, weights>>
ScoreInputs ==
    (TechnicalChoices \X ExperienceBase \X EducationBase \X CulturalBase \X WeightChoices)
    \cup (TechnicalBase \X ExperienceChoices \X EducationBase \X CulturalBase \X WeightChoices)
    \cup (TechnicalBase \X ExperienceBase \X EducationChoices \X CulturalBase
          \X EducationWeightChoices)
    \cup (TechnicalBase \X ExperienceBase \X EducationBase \X CulturalChoices \X WeightChoices)

\* candidate_data built from an input
CandidateOf(in) ==
    [analysis |-> [technical_skills |-> in[1][1]]
                  @@ Opt("experience_level", in[2][1]) @@ Opt("cultural_fit", in[4][1]),
     structured_data |-> [education |-> in[3][1]]]

\* job_requirement built from an input
JobOf(in) ==
    [spec |-> Opt("requiredSkills", in[1][2]) @@ Opt("requiredExperience", in[2][2])
              @@ Opt("requiredEducation", in[3][2]) @@ Opt("culturalRequirements", in[4][2])
              @@ Opt("scoringWeights", in[5])]

(***************************************************************************)
(* Inputs of the extractor call                                            *)
(***************************************************************************)
\* the number of raw lines of a generated resume text
MaxLines == 3

l_John_Smith == <<"J","o","h","n"," ","S","m","i","t","h">>

l_Education == <<"E","d","u","c","a","t","i","o","n">>

l_Bachelor_of_Science ==
    <<"B","a","c","h","e","l","o","r"," ","o","f"," ","S","c","i","e","n","c","e">>

l_State_University == <<"S","t","a","t","e"," ","U","n","i","v","e","r","s","i","t","y">>

l_2015 == <<"2","0","1","5">>

l_Experience == <<"E","x","p","e","r","i","e","n","c","e">>

l_blank == <<" "," ">>

l_BS_2019_Tech_Institute ==
    <<" ","B","S"," ","2","0","1","9",","," ","T","e","c","h"," ",
      "I","n","s","t","i","t","u","t","e">>

l_Skills == <<"S","k","i","l","l","s">>

l_Python_Docker_Chess ==
    <<"P","y","t","h","o","n",","," ","D","o","c","k","e","r",","," ","C","h","e","s","s">>

l_Acme_Corp == <<"A","c","m","e"," ","C","o","r","p">>

l_contact ==
    <<"j","o","@","x",".","i","o"," ","5","5","5","-","1","2","3","-","4","5","6","7">>

l_Name_Jane_Doe == <<"N","a","m","e",":"," ","J","a","n","e"," ","D","o","e">>

l_name_only == <<"n","a","m","e",":">>

l_RESUME == <<"R","E","S","U","M","E">>

l_jane_doe == <<"j","a","n","e"," ","d","o","e">>

l_cv == <<"c","v">>

\* the raw lines of generated texts that exercise the name strategies
NameLines == { l_John_Smith, l_Name_Jane_Doe, l_name_only, l_RESUME, l_jane_doe }

\* the raw lines of generated texts with a name and an education section
RawLines ==
    { l_John_Smith, l_Education, l_Bachelor_of_Science, l_State_University,
      l_2015, l_Experience, l_blank, l_BS_2019_Tech_Institute }

l_ann_at_y_org == <<"a","n","n","@","y",".","o","r","g">>

\* the raw lines of generated texts with contact, experience and skills sections
WorkLines ==
    { l_contact, l_ann_at_y_org, l_Experience, l_2015, l_Acme_Corp, l_Skills, l_Python_Docker_Chess }

\* "\n".join(raw)
RECURSIVE Join(_)
Join(raw) ==
    IF Len(raw) = 0 THEN <<>>
    ELSE IF Len(raw) = 1 THEN raw[1]
    ELSE raw[1] \o <<"\n">> \o Join(Tail(raw))

\* the resume of the specification's scenario C
ScenarioC ==
    Join(<< l_John_Smith, l_Education, l_Bachelor_of_Science, l_State_University,
            l_2015, l_Experience >>)

l_Tech_Institute == <<"T","e","c","h"," ","I","n","s","t","i","t","u","t","e">>

l_BS == <<"B","S">>

l_2019 == <<"2","0","1","9">>

l_MS_2021 == <<"M","S"," ","2","0","2","1">>

l_Java_Spring_Git_Chess ==
    <<"J","a","v","a"," ","S","p","r","i","n","g"," ","BULLET"," ","G","i","t",","," ",","," ","C","h","e","s","s">>

l_Python == <<"P","y","t","h","o","n">>

\* texts with longer sections
SectionTexts ==
    { Join(<< l_Education, l_Tech_Institute, l_BS, l_2019, l_MS_2021 >>),
      Join(<< l_Experience, l_2015, l_Acme_Corp, l_2015 >>),
      Join(<< l_Skills, l_Java_Spring_Git_Chess, l_Python >>) }

\* ten title lines and a name header on line 11
HeaderAtLine11 == Join([i \in 1..11 |-> IF i <= 10 THEN l_cv ELSE l_Name_Jane_Doe])

\* five title lines and a name-like line on line 6
NameAtLine6 == Join([i \in 1..6 |-> IF i <= 5 THEN l_cv ELSE l_John_Smith])

\* the texts extract_structured_data is called with
ResumeTexts ==
    {ScenarioC}
    \cup { Join(raw) : raw \in UNION { [1..n -> RawLines] : n \in 0..MaxLines } }
    \cup { Join(raw) : raw \in UNION { [1..n -> WorkLines] : n \in 0..MaxLines } }
    \cup { Join(raw) : raw \in UNION { [1..n -> NameLines] : n \in 0..MaxLines } }
    \cup { HeaderAtLine11, NameAtLine6 }
    \cup SectionTexts

\* the number of earlier calls whose results are remembered
MaxRemembered == 2

\* the texts of the repeated extractor calls
RepeatedTexts ==
    { <<>>, ScenarioC,
      Join(<< l_Education, l_BS_2019_Tech_Institute >>),
      Join(<< l_Experience, l_2015, l_Acme_Corp >>),
      Join(<< l_Skills, l_Python_Docker_Chess >>) }

\* the inputs of the repeated scoring calls
RepeatedScoreInputs ==
    TechnicalBase \X ExperienceBase \X EducationBase \X CulturalBase
    \X { <<>>,
         << [technicalSkills |-> <<1, 4>>, experience |-> <<1, 4>>,
             education |-> <<1, 4>>, culturalFit |-> <<1, 4>>] >>,
         << [technicalSkills |-> <<1, 2>>, experience |-> <<3, 10>>,
             education |-> <<1, 5>>, culturalFit |-> <<0, 1>>] >> }

(***************************************************************************)
(* ResumeParser.parse_resume and its caller                                *)
(***************************************************************************)
s_Error_parsing_PDF ==
    <<"E","r","r","o","r"," ","p","a","r","s","i","n","g"," ","P","D","F",":"," ">>

s_PDF_parsing_resulted_in_empty_text ==
    <<"P","D","F"," ","p","a","r","s","i","n","g"," ","r","e","s","u","l","t","e","d",
      " ","i","n"," ","e","m","p","t","y"," ","t","e","x","t">>

s_No_Root_object ==
    <<"N","o"," ","/","R","o","o","t"," ","o","b","j","e","c","t","!"," ","-"," ","I",
      "s"," ","t","h","i","s"," ","r","e","a","l","l","y"," ","a"," ","P","D","F","?">>

\* ResumeParser.parse_resume, lines 17-35, on a document for which
\* pdfminer's extract_text has the outcome given: it returns the text t,
\* [kind |-> "text", text |-> t], or raises an exception of class c with
\* message m, [kind |-> c, msg |-> m]
parse_resume(outcome) ==
    IF outcome.kind = "text"
    THEN IF Len(strip(outcome.text)) = 0
         THEN Ok(s_Error_parsing_PDF \o s_PDF_parsing_resulted_in_empty_text)
         ELSE Ok(outcome.text)
    ELSE IF outcome.kind \in {"PDFSyntaxError", "ValueError"}
         THEN Ok(s_Error_parsing_PDF \o outcome.msg)
         ELSE Raise(outcome.kind)

\* what extract_text does on the bytes uploaded
DocumentOutcomes ==
    { [kind |-> "text", text |-> t] :
          t \in RepeatedTexts
                \cup { l_blank, l_John_Smith, Join(<< l_John_Smith, l_contact >>),
                       Join(<< l_contact, l_Skills >>) } }
    \cup { [kind |-> "PDFSyntaxError", msg |-> s_No_Root_object],
           [kind |-> "PSEOF", msg |-> <<>>] }

(***************************************************************************)
(* The degrees of the highest-degree loop                                  *)
(***************************************************************************)
s_MBA == <<"M","B","A">>

s_High_School_Diploma ==
    <<"H","i","g","h"," ","S","c","h","o","o","l"," ","D","i","p","l","o","m","a">>

s_Doctor_of_Medicine ==
    <<"D","o","c","t","o","r"," ","o","f"," ","M","e","d","i","c","i","n","e">>

s_JD == <<"J","D">>

\* the degree texts of the entries normalized
DegreeTexts ==
    { s_BS_Computer_Science, s_Master_of_Science, s_PhD_Physics, s_Associate,
      s_High_School, s_Certificate, s_MBA, s_High_School_Diploma,
      s_Doctor_of_Medicine, s_JD, <<>> }

\* the education lists the loop runs over
DegreeLists ==
    UNION { [1..n -> {[degree |-> t] : t \in DegreeTexts} \cup {[year |-> s_2015]}] :
            n \in 0..MaxEducation }

(***************************************************************************)
(* analysis_cache and RequestThrottler of main.py                          *)
(***************************************************************************)
\* Python's None
None == [kind |-> "None"]

\* the number of /api/analyze requests that arrive
MaxRequests == 6

\* the number of /api/analyze requests under way at a time
MaxConcurrent == 2

Handlers == 1..MaxConcurrent

\* line 399: the length the history is cut back to
history_limit == 5

\* lines 396-400: the cache after response is stored at clock reading now
StoreInCache(cache, response, now) ==
    LET appended == Append(cache.history, response)
    IN  [latest |-> response,
         timestamp |-> now,
         history |-> IF Len(appended) > history_limit THEN Tail(appended) ELSE appended]

\* line 160
min_interval == 10

\* the number of clock advances
MaxTicks == 3

e_latest_analysis ==
    <<"/","a","p","i","/","l","a","t","e","s","t","-","a","n","a","l","y","s","i","s">>

e_overall_score ==
    <<"/","a","p","i","/","a","g","e","n","t","/","o","v","e","r","a","l","l","-","s","c","o","r","e">>

\* the endpoints that ask the throttler
Endpoints == { e_latest_analysis, e_overall_score }

h_10_0_0_1 == <<"1","0",".","0",".","0",".","1">>

h_loopback == <<":",":","1">>

\* request.client.host of the requests
ClientHosts == { h_10_0_0_1, h_loopback }

\* RequestThrottler.should_process, lines 157-176, at clock reading now:
\* the value returned and the timestamps after the call
should_process(timestamps, endpoint, client_host, now) ==
    LET key == endpoint \o <<":">> \o client_host
    IN  IF key \notin DOMAIN timestamps \/ (now - timestamps[key]) > min_interval
        THEN [result |-> TRUE, request_timestamps |-> Put(timestamps, key, now)]
        ELSE [result |-> FALSE, request_timestamps |-> timestamps]

(***************************************************************************)
(* State                                                                   *)
(***************************************************************************)
VARIABLES
    \* JobScoringService.calculate_role_specific_score
    score_pc,           \* "idle", "returned" or "raised"
    candidate_data,     \* the argument candidate_data
    job_requirement,    \* the argument job_requirement
    component_scores,   \* what the four component scorers returned
    score_result,       \* the breakdown returned, or the exception raised
    \* ResumeParser.extract_structured_data
    pc,                 \* "idle", "split", "name", "contact", "education",
                        \* "experience", "skills", "done" or "raised"
    resume_content,     \* the argument resume_content
    lines,
    idx,                \* the position in lines of the running for loop
    structured_data,
    extract_err,        \* the exception raised, "none" when none
    education_section,
    education_entries,
    current_edu,
    experience_section,
    current_experience,
    skills_section,
    programming_languages,
    technical_skills,
    \* analyze_candidate of main.py, lines 282-296
    analyze_pc,         \* "idle", "parsed", "extracting" or "failed"
    file_outcome,       \* what extract_text does on the bytes uploaded
    http_error,         \* the detail of the HTTPException raised, <<>> when none
    \* the highest-degree loop of _calculate_education_score, lines 181-185
    normalize_pc,       \* "idle" or "done"
    degree_entries,     \* the argument candidate_education
    normalized_degrees, \* what _normalize_degree returned for each entry
    highest_degree,
    \* analysis_cache of main.py and the /api/analyze requests under way
    analysis_cache,
    request_pc,         \* of each handler: "idle", "analyzing" or "stored"
    request_response,   \* of each handler: the response it is building
    requests_begun,     \* the number of requests that have arrived
    stored_responses,   \* history: every response stored, in the order of storing
    \* RequestThrottler of main.py
    request_timestamps,
    current_time,       \* the reading of time.time()
    should_process_result, \* what the last call of should_process returned
    throttle_request,   \* the <<endpoint, client_host>> of the last call
    allowed_at,         \* history: per <<endpoint, client_host>>, the times a request was allowed
    last_throttled,     \* history: the last request refused and its time
    \* history of the calls that have returned
    returned_profiles,  \* the pairs <<resume_content, profile returned>>
    returned_breakdowns \* the triples <<candidate_data, job_requirement, breakdown returned>>

score_vars == <<score_pc, candidate_data, job_requirement, component_scores, score_result>>

education_vars == <<education_section, education_entries, current_edu>>

experience_vars == <<experience_section, current_experience>>

skills_vars == <<skills_section, programming_languages, technical_skills>>

extract_vars ==
    <<pc, resume_content, lines, idx, structured_data, extract_err,
      education_vars, experience_vars, skills_vars>>

history_vars == <<returned_profiles, returned_breakdowns>>

analyze_vars == <<analyze_pc, file_outcome, http_error>>

normalize_vars == <<normalize_pc, degree_entries, normalized_degrees, highest_degree>>

cache_vars == <<analysis_cache, request_pc, request_response, requests_begun, stored_responses>>

throttle_vars ==
    <<request_timestamps, current_time, should_process_result, throttle_request,
      allowed_at, last_throttled>>

service_vars == <<normalize_vars, cache_vars, throttle_vars>>

vars == <<score_vars, extract_vars, history_vars, analyze_vars, service_vars>>

\* no call has been made
Init ==
    /\ score_pc = "idle"
    /\ candidate_data = EmptyDict
    /\ job_requirement = EmptyDict
    /\ component_scores = <<>>
    /\ score_result = [err |-> "none", val |-> EmptyDict]
    /\ pc = "idle"
    /\ resume_content = <<>>
    /\ lines = <<>>
    /\ idx = 0
    /\ structured_data = EmptyDict
    /\ extract_err = "none"
    /\ education_section = FALSE
    /\ education_entries = <<>>
    /\ current_edu = EmptyDict
    /\ experience_section = FALSE
    /\ current_experience = EmptyDict
    /\ skills_section = FALSE
    /\ programming_languages = <<>>
    /\ technical_skills = <<>>
    /\ returned_profiles = {}
    /\ returned_breakdowns = {}
    /\ analyze_pc = "idle"
    /\ file_outcome = [kind |-> "none"]
    /\ http_error = <<>>
    /\ normalize_pc = "idle"
    /\ degree_entries = <<>>
    /\ normalized_degrees = <<>>
    /\ highest_degree = s_High_School
    /\ analysis_cache = [latest |-> None, history |-> <<>>, timestamp |-> None]
    /\ request_pc = [h \in Handlers |-> "idle"]
    /\ request_response = [h \in Handlers |-> None]
    /\ requests_begun = 0
    /\ stored_responses = <<>>
    /\ request_timestamps = EmptyDict
    /\ current_time = 0
    /\ should_process_result = FALSE
    /\ throttle_request = <<>>
    /\ allowed_at = [p \in Endpoints \X ClientHosts |-> {}]
    /\ last_throttled = None

(***************************************************************************)
(* Actions                                                                 *)
(***************************************************************************)
\* a call of calculate_role_specific_score, from entry to return or raise
Score ==
    /\ score_pc = "idle" /\ pc = "idle"
    /\ \E in \in ScoreInputs, now \in 1..MaxClock :
          LET r == calculate_role_specific_score(CandidateOf(in), JobOf(in), now)
          IN  /\ candidate_data' = CandidateOf(in)
              /\ job_requirement' = JobOf(in)
              /\ component_scores' = ComponentResults(CandidateOf(in), JobOf(in))
              /\ score_result' = r
              /\ score_pc' = IF r.err = "none" THEN "returned" ELSE "raised"
    /\ UNCHANGED <<extract_vars, history_vars, analyze_vars, service_vars>>

\* extract_structured_data is called: lines 42-49
ExtractCall ==
    /\ pc = "idle" /\ score_pc = "idle"
    /\ \E text \in ResumeTexts : resume_content' = text
    /\ structured_data' =
          [name |-> <<>>, email |-> <<>>, phone |-> <<>>,
           skills |-> <<>>, experience |-> <<>>, education |-> <<>>]
    /\ pc' = "split"
    /\ UNCHANGED <<lines, idx, extract_err, education_vars, experience_vars, skills_vars>>
    /\ UNCHANGED <<score_vars, history_vars, analyze_vars, service_vars>>

\* line 52
ExtractSplit ==
    /\ pc = "split"
    /\ lines' = SplitLines(resume_content)
    /\ pc' = "name"
    /\ UNCHANGED <<resume_content, idx, structured_data, extract_err,
                   education_vars, experience_vars, skills_vars>>
    /\ UNCHANGED <<score_vars, history_vars, analyze_vars, service_vars>>

\* lines 55-89: the three name strategies
ExtractNameStep ==
    /\ pc = "name"
    /\ LET r == ExtractName(lines)
       IN  IF r.err = "none"
           THEN /\ structured_data' = [structured_data EXCEPT !.name = r.val]
                /\ pc' = "contact"
                /\ idx' = 1
                /\ UNCHANGED extract_err
           ELSE /\ extract_err' = r.err
                /\ pc' = "raised"
                /\ UNCHANGED <<structured_data, idx>>
    /\ UNCHANGED <<resume_content, lines, education_vars, experience_vars, skills_vars>>
    /\ UNCHANGED <<score_vars, history_vars, analyze_vars, service_vars>>

\* lines 95-104: one iteration of the contact loop
ContactStep ==
    /\ pc = "contact" /\ idx <= Len(lines)
    /\ structured_data' = ContactLine(structured_data, lines[idx])
    /\ idx' = idx + 1
    /\ UNCHANGED <<pc, resume_content, lines, extract_err,
                   education_vars, experience_vars, skills_vars>>
    /\ UNCHANGED <<score_vars, history_vars, analyze_vars, service_vars>>

\* lines 107-109: the contact loop is over, the education loop starts
ContactEnd ==
    /\ pc = "contact" /\ idx > Len(lines)
    /\ education_section' = FALSE
    /\ education_entries' = <<>>
    /\ current_edu' = EmptyDict
    /\ pc' = "education"
    /\ idx' = 1
    /\ UNCHANGED <<resume_content, lines, structured_data, extract_err,
                   experience_vars, skills_vars>>
    /\ UNCHANGED <<score_vars, history_vars, analyze_vars, service_vars>>

\* lines 110-138: one iteration of the education loop
EducationStep ==
    /\ pc = "education" /\ idx <= Len(lines)
    /\ LET st == EducationLine([education_section |-> education_section,
                                education_entries |-> education_entries,
                                current_edu |-> current_edu], lines[idx])
       IN  /\ education_section' = st.education_section
           /\ education_entries' = st.education_entries
           /\ current_edu' = st.current_edu
    /\ idx' = idx + 1
    /\ UNCHANGED <<pc, resume_content, lines, structured_data, extract_err,
                   experience_vars, skills_vars>>
    /\ UNCHANGED <<score_vars, history_vars, analyze_vars, service_vars>>

\* lines 139-147: the education loop is over, the experience loop starts
EducationEnd ==
    /\ pc = "education" /\ idx > Len(lines)
    /\ LET entries == EducationFlush([education_section |-> education_section,
                                      education_entries |-> education_entries,
                                      current_edu |-> current_edu])
       IN  /\ education_entries' = entries
           /\ structured_data' = [structured_data EXCEPT !.education = entries]
    /\ experience_section' = FALSE
    /\ current_experience' = EmptyDict
    /\ pc' = "experience"
    /\ idx' = 1
    /\ UNCHANGED <<resume_content, lines, extract_err, education_section, current_edu,
                   skills_vars>>
    /\ UNCHANGED <<score_vars, history_vars, analyze_vars, service_vars>>

\* lines 149-182: one iteration of the experience loop
ExperienceStep ==
    /\ pc = "experience" /\ idx <= Len(lines)
    /\ LET st == ExperienceLine([err |-> "none",
                                 experience_section |-> experience_section,
                                 experience |-> structured_data.experience,
                                 current_experience |-> current_experience],
                                lines, lines[idx])
       IN  /\ experience_section' = st.experience_section
           /\ structured_data' = [structured_data EXCEPT !.experience = st.experience]
           /\ current_experience' = st.current_experience
           /\ extract_err' = st.err
           /\ pc' = IF st.err = "none" THEN pc ELSE "raised"
    /\ idx' = idx + 1
    /\ UNCHANGED <<resume_content, lines, education_vars, skills_vars>>
    /\ UNCHANGED <<score_vars, history_vars, analyze_vars, service_vars>>

\* lines 184-191: the experience loop is over, the skills loop starts
ExperienceEnd ==
    /\ pc = "experience" /\ idx > Len(lines)
    /\ structured_data' =
          [structured_data EXCEPT !.experience =
              ExperienceFlush([experience |-> structured_data.experience,
                               current_experience |-> current_experience])]
    /\ skills_section' = FALSE
    /\ programming_languages' = <<>>
    /\ technical_skills' = <<>>
    /\ pc' = "skills"
    /\ idx' = 1
    /\ UNCHANGED <<resume_content, lines, extract_err, education_vars, experience_vars>>
    /\ UNCHANGED <<score_vars, history_vars, analyze_vars, service_vars>>

\* lines 193-215: one iteration of the skills loop
SkillsStep ==
    /\ pc = "skills" /\ idx <= Len(lines)
    /\ LET st == SkillsLine([skills_section |-> skills_section,
                             programming_languages |-> programming_languages,
                             technical_skills |-> technical_skills,
                             skills |-> structured_data.skills], lines[idx])
       IN  /\ skills_section' = st.skills_section
           /\ programming_languages' = st.programming_languages
           /\ technical_skills' = st.technical_skills
           /\ structured_data' = [structured_data EXCEPT !.skills = st.skills]
    /\ idx' = idx + 1
    /\ UNCHANGED <<pc, resume_content, lines, extract_err, education_vars, experience_vars>>
    /\ UNCHANGED <<score_vars, history_vars, analyze_vars, service_vars>>

\* lines 217-221: the skills loop is over, the profile is returned
ExtractReturn ==
    /\ pc = "skills" /\ idx > Len(lines)
    /\ structured_data' =
          Put(Put(structured_data, "programming_languages", programming_languages),
              "technical_skills", technical_skills)
    /\ pc' = "done"
    /\ UNCHANGED <<resume_content, lines, idx, extract_err,
                   education_vars, experience_vars, skills_vars>>
    /\ UNCHANGED <<score_vars, history_vars, analyze_vars, service_vars>>

\* a variant of ScoreAgain in which a job without scoringWeights is scored with
\* the weights of the job of the call before
ScoreAgainKeepingWeights ==
    /\ score_pc \in {"idle", "returned", "raised"} /\ pc = "idle"
    /\ \E in \in RepeatedScoreInputs, now \in 1..MaxClock :
          LET remembered ==
                  IF score_pc = "returned"
                  THEN returned_breakdowns
                           \cup {<<candidate_data, job_requirement, score_result.val>>}
                  ELSE returned_breakdowns
              kept == IF /\ "scoringWeights" \notin DOMAIN JobOf(in)["spec"]
                         /\ "spec" \in DOMAIN job_requirement
                         /\ "scoringWeights" \in DOMAIN job_requirement["spec"]
                      THEN [spec |-> Put(JobOf(in)["spec"], "scoringWeights",
                                         job_requirement["spec"]["scoringWeights"])]
                      ELSE JobOf(in)
              r == calculate_role_specific_score(CandidateOf(in), kept, now)
          IN  /\ Cardinality(remembered) <= MaxRemembered
              /\ returned_breakdowns' = remembered
              /\ candidate_data' = CandidateOf(in)
              /\ job_requirement' = JobOf(in)
              /\ component_scores' = ComponentResults(CandidateOf(in), JobOf(in))
              /\ score_result' = r
              /\ score_pc' = IF r.err = "none" THEN "returned" ELSE "raised"
    /\ UNCHANGED <<extract_vars, returned_profiles, analyze_vars, service_vars>>

\* one more call of calculate_role_specific_score on the same service object,
\* from entry to return or raise; the call before, if it returned, is remembered
ScoreAgain ==
    /\ score_pc \in {"idle", "returned", "raised"} /\ pc = "idle"
    /\ \E in \in RepeatedScoreInputs, now \in 1..MaxClock :
          LET remembered ==
                  IF score_pc = "returned"
                  THEN returned_breakdowns
                           \cup {<<candidate_data, job_requirement, score_result.val>>}
                  ELSE returned_breakdowns
              r == calculate_role_specific_score(CandidateOf(in), JobOf(in), now)
          IN  /\ Cardinality(remembered) <= MaxRemembered
              /\ returned_breakdowns' = remembered
              /\ candidate_data' = CandidateOf(in)
              /\ job_requirement' = JobOf(in)
              /\ component_scores' = ComponentResults(CandidateOf(in), JobOf(in))
              /\ score_result' = r
              /\ score_pc' = IF r.err = "none" THEN "returned" ELSE "raised"
    /\ UNCHANGED <<extract_vars, returned_profiles, analyze_vars, service_vars>>

\* a variant of ExtractAgain in which the profile under construction is the
\* one of the call before
ExtractAgainSharedProfile ==
    /\ pc \in {"idle", "done", "raised"} /\ score_pc = "idle"
    /\ LET remembered ==
               IF pc = "done"
               THEN returned_profiles \cup {<<resume_content, structured_data>>}
               ELSE returned_profiles
       IN  /\ Cardinality(remembered) <= MaxRemembered
           /\ returned_profiles' = remembered
    /\ \E text \in RepeatedTexts : resume_content' = text
    /\ structured_data' =
          IF pc = "done" THEN structured_data
          ELSE [name |-> <<>>, email |-> <<>>, phone |-> <<>>,
                skills |-> <<>>, experience |-> <<>>, education |-> <<>>]
    /\ pc' = "split"
    /\ UNCHANGED <<lines, idx, extract_err, education_vars, experience_vars, skills_vars>>
    /\ UNCHANGED <<score_vars, returned_breakdowns, analyze_vars, service_vars>>

\* one more call of extract_structured_data on the same parser object, lines
\* 42-49; the call before, if it returned, is remembered
ExtractAgain ==
    /\ pc \in {"idle", "done", "raised"} /\ score_pc = "idle"
    /\ LET remembered ==
               IF pc = "done"
               THEN returned_profiles \cup {<<resume_content, structured_data>>}
               ELSE returned_profiles
       IN  /\ Cardinality(remembered) <= MaxRemembered
           /\ returned_profiles' = remembered
    /\ \E text \in RepeatedTexts : resume_content' = text
    /\ structured_data' =
          [name |-> <<>>, email |-> <<>>, phone |-> <<>>,
           skills |-> <<>>, experience |-> <<>>, education |-> <<>>]
    /\ pc' = "split"
    /\ UNCHANGED <<lines, idx, extract_err, education_vars, experience_vars, skills_vars>>
    /\ UNCHANGED <<score_vars, returned_breakdowns, analyze_vars, service_vars>>

\* main.py lines 282-288: analyze_candidate has parse_resume convert the
\* bytes uploaded
AnalyzeParse ==
    /\ analyze_pc = "idle" /\ pc = "idle" /\ score_pc = "idle"
    /\ \E outcome \in DocumentOutcomes :
          LET r == parse_resume(outcome)
          IN  /\ file_outcome' = outcome
              /\ IF r.err = "none"
                 THEN /\ resume_content' = r.val
                      /\ analyze_pc' = "parsed"
                      /\ UNCHANGED http_error
                 ELSE /\ http_error' = "Parsing error"
                      /\ analyze_pc' = "failed"
                      /\ UNCHANGED resume_content
    /\ UNCHANGED <<pc, lines, idx, structured_data, extract_err,
                   education_vars, experience_vars, skills_vars>>
    /\ UNCHANGED <<score_vars, history_vars, service_vars>>

\* main.py lines 291-292: analyze_candidate calls extract_structured_data
\* with what parse_resume returned; resume_parser.py lines 42-49
AnalyzeExtract ==
    /\ analyze_pc = "parsed" /\ pc = "idle"
    /\ structured_data' =
          [name |-> <<>>, email |-> <<>>, phone |-> <<>>,
           skills |-> <<>>, experience |-> <<>>, education |-> <<>>]
    /\ pc' = "split"
    /\ analyze_pc' = "extracting"
    /\ UNCHANGED <<resume_content, lines, idx, extract_err,
                   education_vars, experience_vars, skills_vars>>
    /\ UNCHANGED <<score_vars, history_vars, file_outcome, http_error, service_vars>>

\* lines 181-185 of _calculate_education_score on one education list
NormalizeDegrees ==
    /\ normalize_pc = "idle"
    /\ \E education \in DegreeLists :
          /\ degree_entries' = education
          /\ normalized_degrees' =
                 SubSeq([k \in DOMAIN education |->
                            _normalize_degree(Get(education[k], "degree", <<>>))],
                        1, Len(education))
          /\ highest_degree' = HighestDegree(education, 1, s_High_School)
    /\ normalize_pc' = "done"
    /\ UNCHANGED <<score_vars, extract_vars, history_vars, analyze_vars,
                   cache_vars, throttle_vars>>

\* main.py lines 264-384: a request arrives at /api/analyze and the handler
\* works, across its await points, on the response of this upload
RequestArrives(h) ==
    /\ request_pc[h] = "idle"
    /\ requests_begun < MaxRequests
    /\ requests_begun' = requests_begun + 1
    /\ request_response' =
          [request_response EXCEPT ![h] = [kind |-> "CandidateResponse",
                                           upload |-> requests_begun + 1]]
    /\ request_pc' = [request_pc EXCEPT ![h] = "analyzing"]
    /\ UNCHANGED <<analysis_cache, stored_responses>>
    /\ UNCHANGED <<score_vars, extract_vars, history_vars, analyze_vars,
                   normalize_vars, throttle_vars>>

\* main.py lines 278-296, 426-428: a step before the store raises and the
\* request ends with an HTTPException
RequestFails(h) ==
    /\ request_pc[h] = "analyzing"
    /\ request_pc' = [request_pc EXCEPT ![h] = "idle"]
    /\ request_response' = [request_response EXCEPT ![h] = None]
    /\ UNCHANGED <<analysis_cache, requests_begun, stored_responses>>
    /\ UNCHANGED <<score_vars, extract_vars, history_vars, analyze_vars,
                   normalize_vars, throttle_vars>>

\* a variant of StoreResponse that cuts the history at its end
StoreResponseDropsNewest(h) ==
    /\ request_pc[h] = "analyzing"
    /\ analysis_cache' =
          LET appended == Append(analysis_cache.history, request_response[h])
          IN  [latest |-> request_response[h],
               timestamp |-> current_time,
               history |-> IF Len(appended) > history_limit
                           THEN SubSeq(appended, 1, history_limit) ELSE appended]
    /\ stored_responses' = Append(stored_responses, request_response[h])
    /\ request_pc' = [request_pc EXCEPT ![h] = "stored"]
    /\ UNCHANGED <<request_response, requests_begun>>
    /\ UNCHANGED <<score_vars, extract_vars, history_vars, analyze_vars,
                   normalize_vars, throttle_vars>>

\* main.py lines 386-400: the response is built and stored in the cache,
\* with no await point in between
StoreResponse(h) ==
    /\ request_pc[h] = "analyzing"
    /\ analysis_cache' = StoreInCache(analysis_cache, request_response[h], current_time)
    /\ stored_responses' = Append(stored_responses, request_response[h])
    /\ request_pc' = [request_pc EXCEPT ![h] = "stored"]
    /\ UNCHANGED <<request_response, requests_begun>>
    /\ UNCHANGED <<score_vars, extract_vars, history_vars, analyze_vars,
                   normalize_vars, throttle_vars>>

\* main.py lines 404-423: the agent is told, across await points, and the
\* response is returned
RequestReturns(h) ==
    /\ request_pc[h] = "stored"
    /\ request_pc' = [request_pc EXCEPT ![h] = "idle"]
    /\ request_response' = [request_response EXCEPT ![h] = None]
    /\ UNCHANGED <<analysis_cache, requests_begun, stored_responses>>
    /\ UNCHANGED <<score_vars, extract_vars, history_vars, analyze_vars,
                   normalize_vars, throttle_vars>>

\* a variant of ThrottledRequest whose refused requests refresh the timestamp
ThrottledRequestRefreshing(endpoint, client_host) ==
    LET r == should_process(request_timestamps, endpoint, client_host, current_time)
    IN  /\ should_process_result' = r.result
        /\ request_timestamps' =
               Put(request_timestamps, endpoint \o <<":">> \o client_host, current_time)
        /\ throttle_request' = <<endpoint, client_host>>
        /\ allowed_at' = IF r.result
                         THEN [allowed_at EXCEPT ![<<endpoint, client_host>>] = @ \cup {current_time}]
                         ELSE allowed_at
        /\ last_throttled' = IF r.result THEN last_throttled
                             ELSE [request |-> <<endpoint, client_host>>, time |-> current_time]
        /\ UNCHANGED current_time
        /\ UNCHANGED <<score_vars, extract_vars, history_vars, analyze_vars,
                       normalize_vars, cache_vars>>

\* main.py lines 435-437 (and 631, 809): a request of client_host arrives at
\* endpoint and the handler asks the throttler
ThrottledRequest(endpoint, client_host) ==
    LET r == should_process(request_timestamps, endpoint, client_host, current_time)
    IN  /\ should_process_result' = r.result
        /\ request_timestamps' = r.request_timestamps
        /\ throttle_request' = <<endpoint, client_host>>
        /\ allowed_at' = IF r.result
                         THEN [allowed_at EXCEPT ![<<endpoint, client_host>>] = @ \cup {current_time}]
                         ELSE allowed_at
        /\ last_throttled' = IF r.result THEN last_throttled
                             ELSE [request |-> <<endpoint, client_host>>, time |-> current_time]
        /\ UNCHANGED current_time
        /\ UNCHANGED <<score_vars, extract_vars, history_vars, analyze_vars,
                       normalize_vars, cache_vars>>

\* time passes: time.time() of line 165 reads half an interval more
Tick ==
    /\ current_time < MaxTicks * (min_interval \div 2)
    /\ current_time' = current_time + (min_interval \div 2)
    /\ UNCHANGED <<request_timestamps, should_process_result, throttle_request,
                   allowed_at, last_throttled>>
    /\ UNCHANGED <<score_vars, extract_vars, history_vars, analyze_vars,
                   normalize_vars, cache_vars>>

NextScore == Score

\* the steps of a call under way
ExtractBody ==
    \/ ExtractSplit
    \/ ExtractNameStep
    \/ ContactStep
    \/ ContactEnd
    \/ EducationStep
    \/ EducationEnd
    \/ ExperienceStep
    \/ ExperienceEnd
    \/ SkillsStep
    \/ ExtractReturn

NextExtract == ExtractCall \/ ExtractBody

NextScoreRepeated == ScoreAgain

NextExtractRepeated == ExtractAgain \/ ExtractBody

NextAnalyze == AnalyzeParse \/ AnalyzeExtract \/ ExtractBody

NextNormalize == NormalizeDegrees

NextCache ==
    \E h \in Handlers :
        RequestArrives(h) \/ RequestFails(h) \/ StoreResponse(h) \/ RequestReturns(h)

NextThrottle ==
    \/ \E endpoint \in Endpoints, client_host \in ClientHosts :
          ThrottledRequest(endpoint, client_host)
    \/ Tick

Next ==
    \/ NextScore \/ NextExtract \/ NextScoreRepeated \/ NextExtractRepeated \/ NextAnalyze
    \/ NextNormalize \/ NextCache \/ NextThrottle

\* the whole service
Spec == Init /\ [][Next]_vars

\* the scoring service alone
SpecScore == Init /\ [][NextScore]_vars

\* the extractor alone
SpecExtract == Init /\ [][NextExtract]_vars

\* one scoring service object called again and again
SpecScoreRepeated == Init /\ [][NextScoreRepeated]_vars

\* one parser object called again and again
SpecExtractRepeated == Init /\ [][NextExtractRepeated]_vars

\* one upload handled by analyze_candidate, up to the profile
SpecAnalyze == Init /\ [][NextAnalyze]_vars

\* the highest-degree loop alone
SpecNormalize == Init /\ [][NextNormalize]_vars

\* concurrent /api/analyze requests and the cache
SpecCache == Init /\ [][NextCache]_vars

\* the throttler and the clock
SpecThrottle == Init /\ [][NextThrottle]_vars

(***************************************************************************)
(* Properties of calculate_role_specific_score, under SpecScore             *)
(***************************************************************************)
\* the scoring call has been made
Called == score_pc # "idle"

\* the scoring call returned a breakdown
Returned == score_pc = "returned"

JobSpec == Get(job_requirement, "spec", EmptyDict)

Analysis == Get(candidate_data, "analysis", EmptyDict)

CandidateSkills == Get(Analysis, "technical_skills", EmptyDict)

RequiredSkills == Get(JobSpec, "requiredSkills", EmptyDict)

RequiredExperience == Get(JobSpec, "requiredExperience", EmptyDict)

RequiredEducation == Get(JobSpec, "requiredEducation", EmptyDict)

CandidateEducation == Get(Get(candidate_data, "structured_data", EmptyDict), "education", <<>>)

FourWeights == {"technicalSkills", "experience", "education", "culturalFit"}

\* the job's own weights when it declares any, the defaults 0.4, 0.3, 0.2, 0.1 otherwise
WeightsInEffect ==
    IF "scoringWeights" \in DOMAIN JobSpec
    THEN JobSpec["scoringWeights"]
    ELSE [technicalSkills |-> <<2, 5>>, experience |-> <<3, 10>>,
          education |-> <<1, 5>>, culturalFit |-> <<1, 10>>]

\* the job declares a weights map that lacks one of the four weights
MissingWeightKey ==
    "scoringWeights" \in DOMAIN JobSpec /\ ~(FourWeights \subseteq DOMAIN WeightsInEffect)

\* the job declares the four weights and all of them are zero
AllWeightsZero ==
    /\ "scoringWeights" \in DOMAIN JobSpec
    /\ FourWeights \subseteq DOMAIN WeightsInEffect
    /\ \A k \in FourWeights : WeightsInEffect[k] = <<0, 1>>

\* C3: the overall score of a returned breakdown is the sum over the four
\* components of score * weight under the weights in effect, rounded to two
\* decimals, and every component reports its rounded score, its weight and
\* the rounded product of the two.
C3_WeightedSum ==
    Returned =>
        LET w == WeightsInEffect
            t == component_scores[1].val
            e == component_scores[2].val
            d == component_scores[3].val
            c == component_scores[4].val
            dot == RAdd(RAdd(RAdd(RMul(t, w["technicalSkills"]), RMul(e, w["experience"])),
                             RMul(d, w["education"])),
                        RMul(c, w["culturalFit"]))
            comps == score_result.val.components
            reports(comp, score, weight) ==
                /\ comp.score = round2(score)
                /\ comp.weight = weight
                /\ comp.weighted_score = round2(RMul(score, weight))
        IN  /\ score_result.val.overall_score = round2(dot)
            /\ reports(comps.technical_skills, t, w["technicalSkills"])
            /\ reports(comps.experience, e, w["experience"])
            /\ reports(comps.education, d, w["education"])
            /\ reports(comps.cultural_fit, c, w["culturalFit"])

\* a breakdown under the job's own weights whose overall score is no whole number
\* and whose cultural component carries weight
C3_Witness ==
    /\ Returned
    /\ "scoringWeights" \in DOMAIN JobSpec
    /\ score_result.val.overall_score[2] # 1
    /\ score_result.val.components.cultural_fit.weighted_score # Rat(0)

C5_ZeroOrMalformedWeightsFail ==
    (Called /\ (AllWeightsZero \/ MissingWeightKey)) => score_pc = "raised"

\* C5, amended: the call fails with KeyError and returns nothing when the job's
\* weights map lacks one of the four weights; when the four weights are all
\* zero and no scorer raises it returns a breakdown whose overall score is 0.
C5_MissingWeightFails ==
    Called =>
        /\ MissingWeightKey =>
              /\ score_pc = "raised"
              /\ score_result.val = EmptyDict
              /\ (\A k \in 1..4 : component_scores[k].err = "none")
                    => score_result.err = "KeyError"
        /\ (AllWeightsZero /\ \A k \in 1..4 : component_scores[k].err = "none") =>
              /\ Returned
              /\ score_result.val.overall_score = Rat(0)

\* the call failed on a weights map that lacks a weight
C5_Witness == score_pc = "raised" /\ MissingWeightKey /\ score_result.err = "KeyError"

\* the four category names the technical scorer counts
CountedCategories == {"programmingLanguages", "frameworks", "cloudAndDevOps", "tools"}

\* the (category, skill) pairs the job requires under the categories cats
RequiredUnder(cats) ==
    UNION { {<<c, s>> : s \in DOMAIN RequiredSkills[c]} : c \in cats \cap DOMAIN RequiredSkills }

\* the job's minimum level of a required pair
MinimumOf(it) == RequiredSkills[it[1]][it[2]]

\* the candidate's level of a required pair, 0 when the candidate lacks the skill
LevelOf(it) ==
    IF it[1] \in DOMAIN CandidateSkills /\ it[2] \in DOMAIN CandidateSkills[it[1]]
    THEN CandidateSkills[it[1]][it[2]]
    ELSE 0

\* min(c/m, 1) for m > 0; a minimum of 0 is met by every level
FullOrPartial(c, m) == IF m > 0 THEN RMin(RDiv(Rat(c), Rat(m)), Rat(1)) ELSE Rat(1)

\* the sum of the credits of the required pairs items
RECURSIVE CreditSum(_)
CreditSum(items) ==
    IF items = {} THEN Rat(0)
    ELSE LET it == CHOOSE x \in items : TRUE
         IN  RAdd(FullOrPartial(LevelOf(it), MinimumOf(it)), CreditSum(items \ {it}))

\* (sum of credits / number of required skills) * 100 over the required pairs items
AverageCredit(items) ==
    RMul(RDiv(CreditSum(items), Rat(Cardinality(items))), Rat(100))

\* C6: for a required skill with minimum m > 0 and candidate level c >= 0 the
\* credit is min(c/m, 1), at most 1 and exactly 1 iff c >= m; when every
\* required skill has a positive minimum the technical score is the sum of the
\* credits over the number of required skills, times 100; Python 9 against a
\* required Python 8 under programmingLanguages scores 100.
C6_TechnicalCredit ==
    Called =>
        LET items == RequiredUnder(CountedCategories)
        IN  /\ \A it \in items :
                  MinimumOf(it) > 0 =>
                      LET credit == Credit(LevelOf(it), MinimumOf(it))
                      IN  /\ credit = Ok(RMin(RDiv(Rat(LevelOf(it)), Rat(MinimumOf(it))), Rat(1)))
                          /\ RGeq(Rat(1), credit.val)
                          /\ (credit.val = Rat(1)) <=> (LevelOf(it) >= MinimumOf(it))
                          /\ ItemCredit(CandidateSkills, RequiredSkills, it) = credit
            /\ (items # {} /\ \A it \in items : MinimumOf(it) > 0) =>
                  component_scores[1] = Ok(AverageCredit(items))
            /\ ( /\ RequiredSkills = [programmingLanguages |-> ("Python" :> 8)]
                 /\ LevelOf(<<"programmingLanguages", "Python">>) = 9 ) =>
                  component_scores[1] = Ok(Rat(100))

\* Python 9 against the single requirement Python 8
C6_Witness ==
    /\ Called
    /\ RequiredSkills = [programmingLanguages |-> ("Python" :> 8)]
    /\ CandidateSkills = [programmingLanguages |-> ("Python" :> 9)]
    /\ component_scores[1] = Ok(Rat(100))

\* C7 as stated: every required skill under every category of the job's map,
\* whatever its name, counts in the technical score.
C7_EveryCategoryCounted ==
    (Called /\ RequiredUnder(DOMAIN RequiredSkills) # {}) =>
        component_scores[1] = Ok(AverageCredit(RequiredUnder(DOMAIN RequiredSkills)))

\* C7, amended: the technical score counts the required skills under the four
\* categories programmingLanguages, frameworks, cloudAndDevOps and tools only;
\* a skill required under any other category adds nothing to the number of
\* required skills and no credit, and the score is 0 when nothing is counted.
C7_FourCategoriesCounted ==
    Called =>
        LET counted == RequiredUnder(CountedCategories)
        IN  component_scores[1] =
                IF counted = {} THEN Ok(Rat(0)) ELSE Ok(AverageCredit(counted))

\* a job that requires skills under a counted category and under "databases",
\* scored on the counted ones
C7_Witness ==
    /\ Called
    /\ "databases" \in DOMAIN RequiredSkills
    /\ RequiredUnder(CountedCategories) # {}
    /\ RequiredUnder(DOMAIN RequiredSkills) # RequiredUnder(CountedCategories)
    /\ component_scores[1].val # Rat(0)

\* C8: when the job has no requiredSkills key or an empty requiredSkills map,
\* the technical score is 0, the technical scorer raises nothing, and the call
\* returns a breakdown that reports the 0 unless the weights map lacks a weight.
C8_NoRequiredSkills ==
    (Called /\ ~Truthy(RequiredSkills)) =>
        /\ component_scores[1] = Ok(Rat(0))
        /\ score_pc = "raised" => (MissingWeightKey /\ score_result.err = "KeyError")
        /\ Returned => score_result.val.components.technical_skills.score = Rat(0)

\* a breakdown returned for a job without the requiredSkills key
C8_Witness ==
    /\ Returned
    /\ "requiredSkills" \notin DOMAIN JobSpec
    /\ score_result.val.components.technical_skills.score = Rat(0)

\* Junior=1, Mid-level=2, Senior=3, Lead=4, any other string 0
Ordinal(level) ==
    CASE level = "Junior" -> 1
      [] level = "Mid-level" -> 2
      [] level = "Senior" -> 3
      [] level = "Lead" -> 4
      [] OTHER -> 0

\* C9: with a required level given, the experience score is 100 when the
\* candidate's ordinal is at least the required one and candidate ordinal /
\* required ordinal * 100 otherwise; Mid-level against Senior gives 200/3,
\* reported as 66.67; an unknown candidate level against a known required
\* level gives 0.
C9_ExperienceOrdinal ==
    (Called /\ "level" \in DOMAIN RequiredExperience) =>
        LET candidate == Ordinal(Get(Analysis, "experience_level", "Unknown"))
            required == Ordinal(RequiredExperience["level"])
        IN  /\ component_scores[2] =
                  IF candidate >= required THEN Ok(Rat(100))
                  ELSE Ok(RMul(RDiv(Rat(candidate), Rat(required)), Rat(100)))
            /\ (candidate = 2 /\ required = 3) =>
                  /\ component_scores[2].val = <<200, 3>>
                  /\ Returned => score_result.val.components.experience.score = <<6667, 100>>
            /\ (candidate = 0 /\ required > 0) => component_scores[2] = Ok(Rat(0))

\* a Mid-level candidate against a Senior requirement, reported as 66.67
C9_Witness ==
    /\ Returned
    /\ Get(Analysis, "experience_level", "Unknown") = "Mid-level"
    /\ Get(RequiredExperience, "level", "none") = "Senior"
    /\ score_result.val.components.experience.score = <<6667, 100>>

\* High School=1, Associate=2, Bachelor=3, Master=4, PhD=5, anything else 0
Rank(degree) ==
    CASE degree = s_High_School -> 1
      [] degree = s_Associate -> 2
      [] degree = s_Bachelor -> 3
      [] degree = s_Master -> 4
      [] degree = s_PhD -> 5
      [] OTHER -> 0

\* the rank of the candidate's highest normalized degree, High School when no
\* entry carries a recognised degree
CandidateRank ==
    MaxOf({1} \cup { Rank(_normalize_degree(CandidateEducation[k]["degree"])) :
                     k \in {j \in DOMAIN CandidateEducation :
                               "degree" \in DOMAIN CandidateEducation[j]} })

\* the rank of the job's minimum degree, Bachelor when the job names none
RequiredRank == Rank(Get(RequiredEducation, "minimumDegree", s_Bachelor))

\* some entry's degree text contains, case-insensitively, a preferred field
FieldMatches ==
    \E k \in DOMAIN CandidateEducation :
        /\ "degree" \in DOMAIN CandidateEducation[k]
        /\ "preferredFields" \in DOMAIN RequiredEducation
        /\ \E p \in DOMAIN RequiredEducation["preferredFields"] :
              Contains(lower(CandidateEducation[k]["degree"]),
                       lower(RequiredEducation["preferredFields"][p]))

\* C10: for a job with education requirements and a candidate with education
\* entries, the education score is min(100, base + bonus), base being 100 when
\* the candidate's rank is at least the required rank and candidate rank /
\* required rank * 100 otherwise, bonus being 20 exactly when some entry's
\* degree text contains a preferred field case-insensitively; the degree text
\* "BS Computer Science" with the preferred field "Computer Science" gets it.
C10_EducationScore ==
    (Called /\ Truthy(RequiredEducation) /\ Truthy(CandidateEducation)) =>
        LET base == IF CandidateRank >= RequiredRank THEN Rat(100)
                    ELSE RMul(RDiv(Rat(CandidateRank), Rat(RequiredRank)), Rat(100))
            bonus == IF FieldMatches THEN 20 ELSE 0
        IN  /\ component_scores[3] = Ok(RMin(Rat(100), RAdd(base, Rat(bonus))))
            /\ ( /\ \E k \in DOMAIN CandidateEducation :
                       CandidateEducation[k] = [degree |-> s_BS_Computer_Science]
                 /\ Get(RequiredEducation, "preferredFields", <<>>) = <<s_Computer_Science>> )
                  => /\ bonus = 20
                     /\ component_scores[3] = Ok(RMin(Rat(100), RAdd(base, Rat(20))))

\* "BS Computer Science" against a Master minimum with the preferred field
\* "Computer Science": 75 + 20
C10_Witness ==
    /\ Called
    /\ CandidateEducation = <<[degree |-> s_BS_Computer_Science]>>
    /\ RequiredEducation = [minimumDegree |-> s_Master,
                            preferredFields |-> <<s_Computer_Science>>]
    /\ component_scores[3] = Ok(Rat(95))

(***************************************************************************)
(* Properties of extract_structured_data, under SpecExtract                 *)
(***************************************************************************)
ProfileKeys ==
    {"name", "email", "phone", "skills", "experience", "education",
     "programming_languages", "technical_skills"}

\* some line of the text holds the character c
SomeLineHas(c) == \E i \in DOMAIN lines : c \in Range(lines[i])

\* some line of the text holds one of the section words
SomeLineNames(words) == \E i \in DOMAIN lines : AnyIn(words, lower(lines[i]))

\* C1: the extractor raises nothing on any text, and each of its loops is at a
\* line of the text or at its end, so that the call runs on to its return; the
\* profile it returns has all eight fields, and a field the text gives nothing
\* for (no line at all, no "@", no digit, no section header, a header with no
\* data under it, a year line with no line after it) is an empty string or an
\* empty list.
C1_NeverFails ==
    /\ pc # "raised"
    /\ extract_err = "none"
    /\ pc \in {"contact", "education", "experience", "skills"} => idx \in 1..(Len(lines) + 1)
    /\ pc = "done" =>
          /\ DOMAIN structured_data = ProfileKeys
          /\ lines = <<>> => \A k \in ProfileKeys : structured_data[k] = <<>>
          /\ ~SomeLineHas("@") => structured_data.email = <<>>
          /\ (\A d \in DigitChars : ~SomeLineHas(d)) =>
                /\ structured_data.phone = <<>>
                /\ structured_data.experience = <<>>
          /\ ~SomeLineNames(EducationStartWords) => structured_data.education = <<>>
          /\ ~SomeLineNames(ExperienceStartWords) => structured_data.experience = <<>>
          /\ ~SomeLineNames(SkillsStartWords) =>
                /\ structured_data.skills = <<>>
                /\ structured_data.programming_languages = <<>>
                /\ structured_data.technical_skills = <<>>
          /\ (Len(lines) = 1 /\ (SomeLineNames(EducationStartWords)
                                 \/ SomeLineNames(ExperienceStartWords)
                                 \/ SomeLineNames(SkillsStartWords))) =>
                \A k \in ProfileKeys \ {"name", "email", "phone"} : structured_data[k] = <<>>
          /\ \A k \in DOMAIN structured_data.education :
                /\ DOMAIN structured_data.education[k] \subseteq {"degree", "school", "year"}
                /\ DOMAIN structured_data.education[k] # {}
          /\ \A k \in DOMAIN structured_data.experience :
                DOMAIN structured_data.experience[k] = {"title", "company", "duration"}

\* a returned profile whose experience entry comes from a year line with no
\* line after it: the company is the empty string
C1_Witness ==
    /\ pc = "done"
    /\ \E k \in DOMAIN structured_data.experience :
          /\ structured_data.experience[k].company = <<>>
          /\ structured_data.experience[k].title = lines[Len(lines)]

\* C2 as stated: for the text John Smith / Education / Bachelor of Science /
\* State University / 2015 / Experience the extractor returns the name
\* "John Smith" and exactly one education entry, which carries a degree, the
\* school "State University" and the year "2015".
C2_ScenarioC ==
    (pc = "done" /\ resume_content = ScenarioC) =>
        /\ structured_data.name = l_John_Smith
        /\ Len(structured_data.education) = 1
        /\ "degree" \in DOMAIN structured_data.education[1]
        /\ Get(structured_data.education[1], "school", <<>>) = l_State_University
        /\ Get(structured_data.education[1], "year", <<>>) = l_2015

(***************************************************************************)
(* Further properties of the component scorers, under SpecScore            *)
(***************************************************************************)
\* the rank of the highest normalized degree of an education list, High School
\* when no entry carries a recognised degree
EducationRank(education) ==
    MaxOf({1} \cup { Rank(_normalize_degree(education[k]["degree"])) :
                     k \in {j \in DOMAIN education : "degree" \in DOMAIN education[j]} })

\* some entry of an education list names one of the job's preferred fields
HasPreferredField(education) ==
    \E k \in DOMAIN education :
        /\ "degree" \in DOMAIN education[k]
        /\ "preferredFields" \in DOMAIN RequiredEducation
        /\ \E p \in DOMAIN RequiredEducation["preferredFields"] :
              Contains(lower(education[k]["degree"]),
                       lower(RequiredEducation["preferredFields"][p]))

\* the one-entry education lists the scored candidate is compared with
ComparedEducations == { <<e>> : e \in EducationEntries }

\* C11: under the job's education requirement, a candidate whose highest degree
\* ranks at least as high as the scored candidate's and who has the same
\* field-bonus outcome scores at least as much as the scored candidate.
C11_EducationMonotone ==
    (Called /\ Truthy(RequiredEducation) /\ Truthy(CandidateEducation)) =>
        \A other \in ComparedEducations :
            ( /\ EducationRank(other) >= EducationRank(CandidateEducation)
              /\ HasPreferredField(other) = HasPreferredField(CandidateEducation) ) =>
                RGeq(_calculate_education_score(other, RequiredEducation).val,
                     component_scores[3].val)

\* an Associate scored 40 against a PhD minimum, where a Master scores 80
C11_Witness ==
    /\ Called
    /\ CandidateEducation = <<[degree |-> s_Associate]>>
    /\ RequiredEducation = [minimumDegree |-> s_PhD]
    /\ component_scores[3] = Ok(Rat(40))
    /\ _calculate_education_score(<<[degree |-> s_Master_of_Science]>>, RequiredEducation)
          = Ok(Rat(80))

CulturalFit == Get(Analysis, "cultural_fit", 0)

CulturalRequirements == Get(JobSpec, "culturalRequirements", EmptyDict)

\* 1 when the candidate's one cultural-fit value meets the minimum, value/minimum otherwise
AttributeCredit(minimum) ==
    IF CulturalFit >= minimum THEN Rat(1) ELSE RDiv(Rat(CulturalFit), Rat(minimum))

\* the sum of the credits of the required attributes attrs
RECURSIVE AttributeCreditSum(_)
AttributeCreditSum(attrs) ==
    IF attrs = {} THEN Rat(0)
    ELSE LET a == CHOOSE x \in attrs : TRUE
         IN  RAdd(AttributeCredit(CulturalRequirements[a]), AttributeCreditSum(attrs \ {a}))

\* C12: without cultural requirements the cultural score is the candidate's
\* raw cultural-fit number; with them it is 100 times the average over the
\* required attributes of the credit, 1 when the candidate's one cultural-fit
\* value is at least the attribute's minimum and value/minimum otherwise.
C12_CulturalScore ==
    Called =>
        component_scores[4] =
            IF ~Truthy(CulturalRequirements)
            THEN Ok(Rat(CulturalFit))
            ELSE Ok(RMul(RDiv(AttributeCreditSum(DOMAIN CulturalRequirements),
                              Rat(Cardinality(DOMAIN CulturalRequirements))),
                         Rat(100)))

\* a cultural fit of 85 against the minimums 70 and 90: (1 + 85/90) / 2 * 100
C12_Witness ==
    /\ Called
    /\ CulturalFit = 85
    /\ CulturalRequirements = [teamwork |-> 70, ownership |-> 90]
    /\ component_scores[4] = Ok(<<875, 9>>)

\* C13 as stated: for each of the four dimensions, a job without requirements
\* of that kind gives the component score 0 in the breakdown.
C13_NoRequirementsScoreZero ==
    Returned =>
        LET comps == score_result.val.components
        IN  /\ ~Truthy(RequiredSkills) => comps.technical_skills.score = Rat(0)
            /\ ~Truthy(RequiredExperience) => comps.experience.score = Rat(0)
            /\ ~Truthy(RequiredEducation) => comps.education.score = Rat(0)
            /\ ~Truthy(CulturalRequirements) => comps.cultural_fit.score = Rat(0)

\* C13, amended: a job without requiredSkills, requiredExperience or
\* requiredEducation gives the technical, experience or education score 0 in
\* the breakdown; a job without culturalRequirements gives as cultural score
\* the candidate's raw cultural-fit number, rounded to two decimals.
C13_NoRequirementsScore ==
    Returned =>
        LET comps == score_result.val.components
        IN  /\ ~Truthy(RequiredSkills) => comps.technical_skills.score = Rat(0)
            /\ ~Truthy(RequiredExperience) => comps.experience.score = Rat(0)
            /\ ~Truthy(RequiredEducation) => comps.education.score = Rat(0)
            /\ ~Truthy(CulturalRequirements) => comps.cultural_fit.score = round2(Rat(CulturalFit))

\* a breakdown for a job without culturalRequirements that reports the
\* candidate's cultural fit of 85
C13_Witness ==
    /\ Returned
    /\ "culturalRequirements" \notin DOMAIN JobSpec
    /\ CulturalFit = 85
    /\ score_result.val.components.cultural_fit.score = Rat(85)

\* C14: a breakdown for a job without scoringWeights reports the weights 0.4,
\* 0.3, 0.2, 0.1 and an overall score computed with them; a breakdown for a
\* job with scoringWeights reports the job's weights and an overall score
\* computed with those.
C14_DefaultWeights ==
    Returned =>
        LET comps == score_result.val.components
            used == [technicalSkills |-> comps.technical_skills.weight,
                     experience |-> comps.experience.weight,
                     education |-> comps.education.weight,
                     culturalFit |-> comps.cultural_fit.weight]
            overall == RAdd(RAdd(RAdd(RMul(component_scores[1].val, used["technicalSkills"]),
                                      RMul(component_scores[2].val, used["experience"])),
                                 RMul(component_scores[3].val, used["education"])),
                            RMul(component_scores[4].val, used["culturalFit"]))
        IN  /\ score_result.val.overall_score = round2(overall)
            /\ IF "scoringWeights" \in DOMAIN JobSpec
               THEN \A k \in FourWeights : /\ k \in DOMAIN JobSpec["scoringWeights"]
                                          /\ used[k] = JobSpec["scoringWeights"][k]
               ELSE used = [technicalSkills |-> <<2, 5>>, experience |-> <<3, 10>>,
                            education |-> <<1, 5>>, culturalFit |-> <<1, 10>>]

\* a breakdown for a job without scoringWeights, reporting the default weights
C14_Witness ==
    /\ Returned
    /\ "scoringWeights" \notin DOMAIN JobSpec
    /\ score_result.val.components.technical_skills.weight = <<2, 5>>
    /\ score_result.val.components.cultural_fit.weight = <<1, 10>>
    /\ score_result.val.overall_score # Rat(0)

(***************************************************************************)
(* Properties of repeated calls, under SpecExtractRepeated and              *)
(* SpecScoreRepeated                                                        *)
(***************************************************************************)
\* C15: a call of extract_structured_data that has returned has returned the
\* profile that every earlier call on the same text returned, whatever calls
\* on other texts were made in between.
C15_SameTextSameProfile ==
    pc = "done" =>
        \A earlier \in returned_profiles :
            earlier[1] = resume_content => earlier[2] = structured_data

\* a second call on the skills text has returned the profile of the first,
\* with a call on the text of scenario C in between
C15_Witness ==
    /\ pc = "done"
    /\ resume_content = Join(<< l_Skills, l_Python_Docker_Chess >>)
    /\ <<resume_content, structured_data>> \in returned_profiles
    /\ \E earlier \in returned_profiles : earlier[1] = ScenarioC
    /\ Len(structured_data["programming_languages"]) = 1

DocumentUnreadable ==
    /\ file_outcome.kind # "none"
    /\ file_outcome.kind = "text" => Len(strip(file_outcome.text)) = 0

\* C17: when the bytes uploaded are not a parseable document or yield no
\* extractable text, parse_resume signals the failure: the caller holds no
\* value returned by it and never calls the extractor with one.
C17_UnreadableIsSignalled ==
    DocumentUnreadable => (analyze_pc = "failed" /\ pc = "idle")

(***************************************************************************)
(* Properties of the line scan, under SpecExtract                           *)
(***************************************************************************)
\* education_section after the first n lines of ls have gone through the
\* education loop
RECURSIVE EducationOpenAfter(_, _)
EducationOpenAfter(ls, n) ==
    IF n = 0 THEN FALSE
    ELSE EducationLine([education_section |-> EducationOpenAfter(ls, n - 1),
                        education_entries |-> <<>>,
                        current_edu |-> EmptyDict], ls[n]).education_section

\* experience_section after the first n lines of ls have gone through the
\* experience loop
RECURSIVE ExperienceOpenAfter(_, _)
ExperienceOpenAfter(ls, n) ==
    IF n = 0 THEN FALSE
    ELSE ExperienceLine([err |-> "none",
                         experience_section |-> ExperienceOpenAfter(ls, n - 1),
                         experience |-> <<>>,
                         current_experience |-> EmptyDict], ls, ls[n]).experience_section

\* skills_section after the first n lines of ls have gone through the skills loop
RECURSIVE SkillsOpenAfter(_, _)
SkillsOpenAfter(ls, n) ==
    IF n = 0 THEN FALSE
    ELSE SkillsLine([skills_section |-> SkillsOpenAfter(ls, n - 1),
                     programming_languages |-> <<>>,
                     technical_skills |-> <<>>,
                     skills |-> <<>>], ls[n]).skills_section

\* line i reaches the field extraction of the education loop (lines 123-138)
EducationData(ls, i) ==
    /\ EducationOpenAfter(ls, i - 1)
    /\ ~AnyIn(EducationStartWords, lower(ls[i]))
    /\ ~AnyIn(EducationEndWords, lower(ls[i]))

\* line i reaches the field extraction of the experience loop (lines 166-182)
ExperienceData(ls, i) ==
    /\ ExperienceOpenAfter(ls, i - 1)
    /\ ~ContactLike(ls[i])
    /\ ~AnyIn(ExperienceStartWords, lower(ls[i]))
    /\ ~AnyIn(ExperienceEndWords, lower(ls[i]))

\* line i reaches the skill categorisation of the skills loop (lines 203-215)
SkillsData(ls, i) ==
    /\ SkillsOpenAfter(ls, i - 1)
    /\ ~AnyIn(SkillsStartWords, lower(ls[i]))
    /\ ~AnyIn(SkillsEndWords, lower(ls[i]))

\* C18: when the scan of a text is over, no line of it has been processed as
\* data of two sections: at most one of the education, experience and skills
\* loops took the line as data of its section.
C18_OneSectionPerLine ==
    pc = "done" =>
        \A i \in DOMAIN lines :
            /\ ~(EducationData(lines, i) /\ ExperienceData(lines, i))
            /\ ~(EducationData(lines, i) /\ SkillsData(lines, i))
            /\ ~(ExperienceData(lines, i) /\ SkillsData(lines, i))

w_projects == <<"p","r","o","j","e","c","t","s">>

\* C19: the step of a loop whose section is open, on a line that matches a
\* trigger word of another section or 'projects', closes the section.
C19_ClosesOnOtherTriggers ==
    [][ /\ ( /\ EducationStep /\ education_section
             /\ \/ AnyIn(ExperienceStartWords, lower(lines[idx]))
                \/ AnyIn(SkillsStartWords, lower(lines[idx]))
                \/ Contains(lower(lines[idx]), w_projects) )
           => ~education_section'
        /\ ( /\ ExperienceStep /\ experience_section
             /\ \/ AnyIn(EducationStartWords, lower(lines[idx]))
                \/ AnyIn(SkillsStartWords, lower(lines[idx]))
                \/ Contains(lower(lines[idx]), w_projects) )
           => ~experience_section'
        /\ ( /\ SkillsStep /\ skills_section
             /\ \/ AnyIn(EducationStartWords, lower(lines[idx]))
                \/ AnyIn(ExperienceStartWords, lower(lines[idx]))
                \/ Contains(lower(lines[idx]), w_projects) )
           => ~skills_section' ]_vars

\* the entry the education loop is filling after a step, or the entry it has
\* just completed
EntryAfterStep ==
    IF Len(education_entries') > Len(education_entries)
    THEN education_entries'[Len(education_entries')]
    ELSE current_edu'

\* C20: the step of the education loop on a line that is no terminator, with
\* the section open, gives the line to the field extraction: the degree, the
\* school and the year found in the line are in the entry after the step.
C20_EducationLineContributes ==
    [][ ( /\ EducationStep /\ education_section
          /\ ~AnyIn(EducationEndWords, lower(lines[idx])) )
        => /\ DegreeMatch(lines[idx]) # <<>> =>
                  Get(EntryAfterStep, "degree", <<>>) = DegreeMatch(lines[idx])
           /\ SchoolMatch(lines[idx]) =>
                  Get(EntryAfterStep, "school", <<>>) = strip(lines[idx])
           /\ YearMatch(lines[idx]) # <<>> =>
                  Get(EntryAfterStep, "year", <<>>) = YearMatch(lines[idx]) ]_vars

(***************************************************************************)
(* Properties of the field extraction, under SpecExtract                    *)
(***************************************************************************)
\* the name the line gives under a header: the rest of the line after the
\* first of the four headers it starts with that leaves a non-empty rest
LabelledName(line) ==
    LET labels == << <<"n","a","m","e",":">>, <<"f","u","l","l"," ","n","a","m","e",":">>,
                     <<"c","a","n","d","i","d","a","t","e",":">>,
                     <<"a","p","p","l","i","c","a","n","t",":">> >>
        rest(k) == strip(SubSeq(line, Len(labels[k]) + 1, Len(line)))
        with == {k \in 1..4 : /\ Len(line) >= Len(labels[k])
                              /\ lower(SubSeq(line, 1, Len(labels[k]))) = labels[k]
                              /\ rest(k) # <<>>}
    IN  IF with = {} THEN <<>> ELSE rest(CHOOSE k \in with : \A j \in with : k <= j)

\* the line is made only of two or more words, each a capital letter followed
\* by lower-case letters
CapitalizedWords(line) ==
    LET words == SelectSeq(SplitOn(line, SpaceChars), NonEmpty)
    IN  /\ Len(words) >= 2
        /\ \A k \in DOMAIN words :
              /\ Len(words[k]) >= 2 /\ IsUpper(words[k][1])
              /\ \A c \in 2..Len(words[k]) : IsLower(words[k][c])

\* C21: the name of the profile is the name under the first header line
\* among the first 10 lines; without one, the first line among the first 5 made
\* of capitalized words; without one, the first line unless it is 'resume',
\* 'curriculum vitae' or 'cv' in any letter case; otherwise it is empty.
C21_NameStrategies ==
    pc \in {"contact", "education", "experience", "skills", "done"} =>
        LET labelled == {i \in DOMAIN lines : i <= 10 /\ LabelledName(lines[i]) # <<>>}
            capitalized == {i \in DOMAIN lines : i <= 5 /\ CapitalizedWords(lines[i])}
            first(S) == CHOOSE i \in S : \A j \in S : i <= j
        IN  structured_data["name"] =
                IF labelled # {} THEN LabelledName(lines[first(labelled)])
                ELSE IF capitalized # {} THEN lines[first(capitalized)]
                ELSE IF /\ lines # <<>>
                        /\ lower(lines[1]) \notin
                               { <<"r","e","s","u","m","e">>, <<"c","v">>,
                                 <<"c","u","r","r","i","c","u","l","u","m"," ",
                                   "v","i","t","a","e">> }
                     THEN lines[1]
                     ELSE <<>>

\* a header line on line 2 wins over the name-like line 1
C21_Witness ==
    /\ pc = "done"
    /\ lines = << l_John_Smith, l_Name_Jane_Doe >>
    /\ structured_data["name"] = <<"J","a","n","e"," ","D","o","e">>

\* the lines that hold an email address, and those that hold a phone number
EmailLines == {i \in DOMAIN lines : EmailMatch(lines[i]) # <<>>}

PhoneLines == {i \in DOMAIN lines : PhoneMatch(lines[i]) # <<>>}

\* C22: after the contact scan, the email of the profile is the match of the
\* last line of the text that holds one, in whatever section the line stands,
\* and the phone is the match of the last line that holds one; a field
\* without a matching line is empty.
C22_LastContactWins ==
    pc \in {"education", "experience", "skills", "done"} =>
        LET last(S) == CHOOSE i \in S : \A j \in S : j <= i
        IN  /\ structured_data["email"] =
                  IF EmailLines = {} THEN <<>> ELSE EmailMatch(lines[last(EmailLines)])
            /\ structured_data["phone"] =
                  IF PhoneLines = {} THEN <<>> ELSE PhoneMatch(lines[last(PhoneLines)])

\* the email of a later line, inside the skills section, replaces the one of
\* line 1, whose phone number stays
C22_Witness ==
    /\ pc = "done"
    /\ lines = << l_contact, l_Skills, l_ann_at_y_org >>
    /\ structured_data["email"] = l_ann_at_y_org
    /\ structured_data["phone"] = <<"5","5","5","-","1","2","3","-","4","5","6","7">>

\* the open partial holds both a degree and a year
Complete(entry) == "degree" \in DOMAIN entry /\ "year" \in DOMAIN entry

\* C23: a step of the education loop leaves an open partial that does not
\* hold both a degree and a year; the step appends an entry exactly when the
\* partial, with the fields of the line, holds both, or when the line closes
\* the section on a non-empty partial; the entry appended carries every
\* field the partial held, the school unchanged unless the line names one;
\* and a fresh empty partial starts.
C23_CompleteIsFlushed ==
    [][ EducationStep =>
          LET appended == Len(education_entries') = Len(education_entries) + 1
              closes == /\ education_section
                        /\ ~AnyIn(EducationStartWords, lower(lines[idx]))
                        /\ AnyIn(EducationEndWords, lower(lines[idx]))
          IN  /\ ~Complete(current_edu')
              /\ appended \/ education_entries' = education_entries
              /\ appended <=> (Complete(EntryAfterStep) \/ (closes /\ current_edu # EmptyDict))
              /\ appended =>
                    /\ current_edu' = EmptyDict
                    /\ SubSeq(education_entries', 1, Len(education_entries)) = education_entries
              /\ \A k \in DOMAIN current_edu : k \in DOMAIN EntryAfterStep
              /\ ("school" \in DOMAIN current_edu /\ ~SchoolMatch(lines[idx])) =>
                    EntryAfterStep["school"] = current_edu["school"] ]_vars

\* the partial with the school of line 2 and the degree of line 3 has been
\* flushed at the year of line 4
C23_Witness ==
    /\ pc = "education" /\ idx = 5
    /\ lines = << l_Education, l_Tech_Institute, l_BS, l_2019, l_MS_2021 >>
    /\ education_entries = << [school |-> l_Tech_Institute, degree |-> l_BS, year |-> l_2019] >>
    /\ current_edu = EmptyDict

\* the first line after position i that has no 4-digit token and names none
\* of the sections, stripped; <<>> when there is none
CompanyAfter(i) ==
    LET free == {j \in DOMAIN lines :
                    /\ j > i
                    /\ FourDigits(lines[j]) = <<>>
                    /\ ~AnyIn(CompanyStopWords, lower(lines[j]))}
    IN  IF free = {} THEN <<>> ELSE strip(lines[CHOOSE j \in free : \A k \in free : j <= k])

\* C24: a step of the experience loop that takes a line with a 4-digit token
\* as data of the section opens the entry whose title is the line, whose
\* duration is the token and whose company is the first line after the
\* position of that line without a 4-digit token and without a section word.
C24_EntryOfYearLine ==
    [][ ( /\ ExperienceStep /\ experience_section
          /\ ~ContactLike(lines[idx])
          /\ ~AnyIn(ExperienceStartWords, lower(lines[idx]))
          /\ ~AnyIn(ExperienceEndWords, lower(lines[idx]))
          /\ FourDigits(lines[idx]) # <<>> )
        => current_experience' = [title |-> lines[idx],
                                  company |-> CompanyAfter(idx),
                                  duration |-> FourDigits(lines[idx])] ]_vars

\* the tokens of the lines the skills loop splits, in document order
RECURSIVE SplitTokens(_)
SplitTokens(n) ==
    IF n = 0 THEN <<>>
    ELSE SplitTokens(n - 1)
         \o (IF SkillsData(lines, n) THEN SkillTokens(lines[n]) ELSE <<>>)

IsLanguage(token) == WordSearch(LanguageWords, lower(token))

IsTechnical(token) == ~IsLanguage(token) /\ WordSearch(TechnicalWords, lower(token))

IsGeneric(token) == ~IsLanguage(token) /\ ~WordSearch(TechnicalWords, lower(token))

\* C25: the profile returned holds the tokens of the lines split in the
\* skills section in three separate collections, each in document order:
\* programming_languages the tokens that match the language dictionary,
\* technical_skills those that do not and match the technical dictionary,
\* skills the others.
C25_TokensPartitioned ==
    pc = "done" =>
        /\ structured_data["programming_languages"] = SelectSeq(SplitTokens(Len(lines)), IsLanguage)
        /\ structured_data["technical_skills"] = SelectSeq(SplitTokens(Len(lines)), IsTechnical)
        /\ structured_data["skills"] = SelectSeq(SplitTokens(Len(lines)), IsGeneric)

\* 'Java Spring' matches both dictionaries and is a language; the empty
\* token between the commas is dropped
C25_Witness ==
    /\ pc = "done"
    /\ lines = << l_Skills, l_Java_Spring_Git_Chess, l_Python >>
    /\ structured_data["programming_languages"] = << <<"J","a","v","a"," ","S","p","r","i","n","g">>, l_Python >>
    /\ structured_data["technical_skills"] = << <<"G","i","t">> >>
    /\ structured_data["skills"] = << <<"C","h","e","s","s">> >>

\* C26: an education partial that holds a field stays open, possibly
\* extended, or is appended once, as it stands after the line, with a fresh
\* partial behind it; an open experience entry stays open or is appended once,
\* when a year line opens the next one or the section closes; at the end of
\* each loop the entry still open is appended once; entries are appended at
\* the end of the list, and the lists of the profile do not change after
\* their loops.
C26_EmittedOnce ==
    [][ /\ EducationStep =>
              \/ /\ education_entries' = education_entries
                 /\ \A k \in DOMAIN current_edu : k \in DOMAIN current_edu'
              \/ /\ Len(education_entries') = Len(education_entries) + 1
                 /\ SubSeq(education_entries', 1, Len(education_entries)) = education_entries
                 /\ EntryAfterStep # EmptyDict
                 /\ \A k \in DOMAIN current_edu : k \in DOMAIN EntryAfterStep
                 /\ current_edu' = EmptyDict
        /\ EducationEnd =>
              structured_data'["education"] =
                  IF current_edu = EmptyDict THEN education_entries
                  ELSE Append(education_entries, current_edu)
        /\ ExperienceStep =>
              \/ /\ structured_data'["experience"] = structured_data["experience"]
                 /\ current_experience' = current_experience
              \/ /\ structured_data'["experience"] = structured_data["experience"]
                 /\ current_experience = EmptyDict /\ current_experience' # EmptyDict
              \/ /\ structured_data'["experience"] =
                        Append(structured_data["experience"], current_experience)
                 /\ current_experience # EmptyDict
                 /\ \/ current_experience' = EmptyDict
                    \/ /\ FourDigits(lines[idx]) # <<>>
                       /\ current_experience'["title"] = lines[idx]
        /\ ExperienceEnd =>
              structured_data'["experience"] =
                  IF current_experience = EmptyDict THEN structured_data["experience"]
                  ELSE Append(structured_data["experience"], current_experience)
        /\ (ExperienceStep \/ ExperienceEnd \/ SkillsStep \/ ExtractReturn) =>
              structured_data'["education"] = structured_data["education"]
        /\ (SkillsStep \/ ExtractReturn) =>
              structured_data'["experience"] = structured_data["experience"] ]_vars

\* the entry of line 2 was appended when line 4 opened the next one, and
\* that one at the end of the input
C26_Witness ==
    /\ pc = "done"
    /\ lines = << l_Experience, l_2015, l_Acme_Corp, l_2015 >>
    /\ Len(structured_data["experience"]) = 2
    /\ structured_data["experience"][1]["title"] = l_2015
    /\ structured_data["experience"][2]["title"] = l_2015

(***************************************************************************)
(* Division by zero in the component scorers, under SpecScore               *)
(***************************************************************************)
\* C30: no component scorer raises; a required experience level or a
\* required degree that is not on the scale gives the full score 100, required
\* skills or cultural attributes whose minimums are all 0 give 100, and
\* required skills of which none is counted give 0.
C30_NoDivisionByZero ==
    Called =>
        /\ \A k \in 1..4 : component_scores[k].err = "none"
        /\ ( /\ Truthy(RequiredExperience)
             /\ Ordinal(Get(RequiredExperience, "level", "Mid-level")) = 0 )
           => component_scores[2].val = Rat(100)
        /\ (Truthy(RequiredEducation) /\ Truthy(CandidateEducation) /\ RequiredRank = 0)
           => component_scores[3].val = Rat(100)
        /\ (Truthy(RequiredSkills) /\ RequiredUnder(CountedCategories) = {})
           => component_scores[1].val = Rat(0)
        /\ ( /\ RequiredUnder(CountedCategories) # {}
             /\ \A it \in RequiredUnder(CountedCategories) : MinimumOf(it) = 0 )
           => component_scores[1].val = Rat(100)
        /\ ( /\ Truthy(CulturalRequirements)
             /\ \A a \in DOMAIN CulturalRequirements : CulturalRequirements[a] = 0 )
           => component_scores[4].val = Rat(100)

\* a cultural fit of 0 against a minimum of 0, scored 100
C30_Witness ==
    /\ Called
    /\ CulturalFit = 0
    /\ CulturalRequirements = [teamwork |-> 0]
    /\ component_scores[4] = Ok(Rat(100))

(***************************************************************************)
(* Properties of the degree normalization, under SpecNormalize             *)
(***************************************************************************)
\* the keyword groups in the order of the priority, each with its category
KeywordGroups ==
    << [category |-> <<"B","a","c","h","e","l","o","r">>,
        keywords |-> { <<"b","a","c","h","e","l","o","r">>, <<"b",".","s",".">>, <<"b","s">>, <<"b","a">> }],
       [category |-> <<"M","a","s","t","e","r">>,
        keywords |-> { <<"m","a","s","t","e","r">>, <<"m",".","s",".">>, <<"m","s">>, <<"m","a">>, <<"m","b","a">> }],
       [category |-> <<"P","h","D">>,
        keywords |-> { <<"p","h","d">>, <<"d","o","c","t","o","r">>, <<"p","h",".","d",".">>, <<"m","d">>, <<"j","d">> }],
       [category |-> <<"A","s","s","o","c","i","a","t","e">>, keywords |-> { <<"a","s","s","o","c","i","a","t","e">> }],
       [category |-> <<"H","i","g","h"," ","S","c","h","o","o","l">>,
        keywords |-> { <<"h","i","g","h"," ","s","c","h","o","o","l">> }] >>

\* the groups of which a keyword is a substring of the lower-cased text
MatchingGroups(text) ==
    { g \in DOMAIN KeywordGroups :
        \E w \in KeywordGroups[g].keywords : Contains(lower(text), w) }

\* the least member of a non-empty set of numbers
Least(S) == CHOOSE x \in S : \A y \in S : x <= y

\* the text of entry k of the list, the empty text when it has no degree
DegreeText(k) == Get(degree_entries[k], "degree", <<>>)

\* the ranks of the entries whose text matches a group
MatchedRanks ==
    { Rank(KeywordGroups[Least(MatchingGroups(DegreeText(k)))].category) :
        k \in { i \in DOMAIN degree_entries : MatchingGroups(DegreeText(i)) # {} } }

\* C27: each degree text is normalized to the category of the first group, in
\* the order Bachelor, Master, PhD, Associate, High School, of which a keyword
\* is a substring of the lower-cased text, and to its title-cased text when
\* no group matches; the highest degree is the highest-ranked category among
\* the matched entries and High School when there is none above it.
C27_FirstGroupWins ==
    normalize_pc = "done" =>
        /\ Len(normalized_degrees) = Len(degree_entries)
        /\ \A k \in DOMAIN degree_entries :
              IF MatchingGroups(DegreeText(k)) # {}
              THEN normalized_degrees[k] =
                       KeywordGroups[Least(MatchingGroups(DegreeText(k)))].category
              ELSE /\ normalized_degrees[k] = title(lower(DegreeText(k)))
                   /\ Rank(normalized_degrees[k]) = 0
        /\ Rank(highest_degree) >= 1
        /\ \A r \in MatchedRanks : Rank(highest_degree) >= r
        /\ Rank(highest_degree) \in MatchedRanks \cup {1}
        /\ (MatchedRanks = {}) => highest_degree = s_High_School

\* 'MBA' has keywords of the Bachelor and of the Master group and becomes
\* Bachelor; 'Certificate' matches nothing and leaves the rank alone
C27_Witness ==
    /\ normalize_pc = "done"
    /\ degree_entries = << [degree |-> s_Certificate], [degree |-> s_MBA] >>
    /\ MatchingGroups(s_MBA) = {1, 2}
    /\ normalized_degrees = << s_Certificate, s_Bachelor >>
    /\ highest_degree = s_Bachelor

(***************************************************************************)
(* Properties of the analysis cache, under SpecCache                       *)
(***************************************************************************)
\* the last n elements of a sequence, all of them when it has fewer
LastOf(seq, n) == SubSeq(seq, IF Len(seq) > n THEN Len(seq) - n + 1 ELSE 1, Len(seq))

\* C28: whatever the interleaving of the requests, the history of the cache
\* holds the at most 5 most recently stored responses in the order of their
\* storing and latest is the last of them; before the first store latest is
\* None and the history is empty.
C28_HistoryIsLastFive ==
    /\ Len(analysis_cache.history) <= 5
    /\ analysis_cache.history = LastOf(stored_responses, 5)
    /\ IF stored_responses = <<>>
       THEN analysis_cache.latest = None /\ analysis_cache.history = <<>>
       ELSE analysis_cache.latest = analysis_cache.history[Len(analysis_cache.history)]

\* six responses stored, the second upload before the first: the first one
\* stored has left the history
C28_Witness ==
    /\ Len(stored_responses) = 6
    /\ stored_responses[1].upload = 2
    /\ stored_responses[2].upload = 1
    /\ Len(analysis_cache.history) = 5
    /\ analysis_cache.history[1].upload = 1
    /\ analysis_cache.latest = stored_responses[6]
    /\ \A h \in Handlers : request_pc[h] = "idle"

(***************************************************************************)
(* Properties of the request throttler, under SpecThrottle                 *)
(***************************************************************************)
\* the greatest member of a non-empty set of numbers
Greatest(S) == CHOOSE x \in S : \A y \in S : x >= y

\* the key of the throttler for an endpoint and a client
ThrottleKey(p) == p[1] \o <<":">> \o p[2]

\* C29: a request is allowed if it is the first of its endpoint and client
\* or comes more than 10 seconds after the last allowed one of them, and
\* refused otherwise; an allowed request stores its time, a refused one leaves
\* the timestamps as they are, and the timestamps of the other endpoints and
\* clients are never touched.
C29_OncePerWindow ==
    [][\A p \in Endpoints \X ClientHosts :
          ThrottledRequest(p[1], p[2]) =>
              /\ should_process_result' =
                    ( \/ allowed_at[p] = {}
                      \/ current_time - Greatest(allowed_at[p]) > 10 )
              /\ should_process_result' =>
                    /\ ThrottleKey(p) \in DOMAIN request_timestamps'
                    /\ request_timestamps'[ThrottleKey(p)] = current_time
              /\ ~should_process_result' => request_timestamps' = request_timestamps
              /\ \A q \in (Endpoints \X ClientHosts) \ {p} :
                    /\ ThrottleKey(q) # ThrottleKey(p)
                    /\ (ThrottleKey(q) \in DOMAIN request_timestamps')
                          = (ThrottleKey(q) \in DOMAIN request_timestamps)
                    /\ ThrottleKey(q) \in DOMAIN request_timestamps =>
                          request_timestamps'[ThrottleKey(q)]
                             = request_timestamps[ThrottleKey(q)]
      ]_vars

\* a client polling every 5 seconds: allowed at 0, refused at 10, allowed
\* again at 15, while another client of the endpoint was first allowed at 5
C29_Witness ==
    /\ current_time = 15
    /\ throttle_request = <<e_latest_analysis, h_loopback>>
    /\ should_process_result
    /\ allowed_at[<<e_latest_analysis, h_loopback>>] = {0, 15}
    /\ allowed_at[<<e_latest_analysis, h_10_0_0_1>>] = {5}
    /\ last_throttled = [request |-> <<e_latest_analysis, h_loopback>>, time |-> 10]
    /\ request_timestamps[ThrottleKey(<<e_latest_analysis, h_10_0_0_1>>)] = 5

====
